---- MODULE Spec2Model ----
(***************************************************************************)
(* Byte-level model of the container writer and reader of sfi2k7/mc.       *)
(*                                                                         *)
(* Two on-disk variants exist in the repository:                           *)
(*   MCBF  src/unnamed/part_000          uncompressed body, 8-byte length  *)
(*   MCBZ  src/internal/storage/file.go  zstd body, 4-byte length          *)
(*                                                                         *)
(* A file is a sequence of bytes (0..255).  Strings are sequences of       *)
(* bytes.  A BSON document is a sequence of elements, each a record        *)
(* [key, type, val] where val holds the encoded value bytes.               *)
(***************************************************************************)
EXTENDS Integers, Sequences, FiniteSets, TLC

(***************************************************************************)
(* Bounds of the model                                                     *)
(***************************************************************************)
\* WriteBatch calls per writer
MaxBatches == 2
\* ReadBatch calls per reader
MaxReads == 3
\* largest batch limit a reader is opened with
MaxLimit == 2

(***************************************************************************)
(* Program constants                                                       *)
(***************************************************************************)
magicBytes == <<77, 67, 66, 70>>
magicNumber == <<77, 67, 66, 90>>
fileVersion == 1
\* make([]byte, 13) in NewFileWriter
PlaceholderLen == 13
\* metadataLength > 10*1024*1024
MaxMetadataLen == 10485760
\* batchLength > 1000000
MaxBatchLength == 1000000
\* docLength > 16*1024*1024
MaxDocLength == 16777216
\* largest value the model's integers hold; wider values saturate here
MaxInt == 2147483647

(***************************************************************************)
(* Sequences of bytes                                                      *)
(***************************************************************************)
Min(a, b) == IF a < b THEN a ELSE b
Max(a, b) == IF a > b THEN a ELSE b

Slice(s, from, to) == SubSeq(s, from + 1, to)

Zeros(n) == [i \in 1..n |-> 0]

RECURSIVE Concat(_)
Concat(ss) == IF ss = <<>> THEN <<>> ELSE Head(ss) \o Concat(Tail(ss))

\* byteOrder.PutUint32
PutUint32(n) ==
  <<n % 256, (n \div 256) % 256, (n \div 65536) % 256, (n \div 16777216) % 256>>

\* byteOrder.PutUint64 (the model's values fit in the low four bytes)
PutUint64(n) == PutUint32(n) \o <<0, 0, 0, 0>>

\* byteOrder.Uint32; values of 2^31 and more saturate at MaxInt
Uint32(b) ==
  IF b[4] >= 128 THEN MaxInt
  ELSE b[1] + 256 * b[2] + 65536 * b[3] + 16777216 * b[4]

\* byteOrder.Uint64; values of 2^31 and more saturate at MaxInt
Uint64(b) ==
  IF b[5] # 0 \/ b[6] # 0 \/ b[7] # 0 \/ b[8] # 0 THEN MaxInt
  ELSE Uint32(SubSeq(b, 1, 4))

(***************************************************************************)
(* Files: os.File Write at a position, io.ReadFull from a position         *)
(***************************************************************************)
\* file.Write(data) with the file position at pos: overwrites, extends,
\* and zero-fills a gap left by a seek past the end; a write of no bytes
\* changes nothing
WriteAt(content, pos, data) ==
  LET end == IF data = <<>> THEN Len(content)
             ELSE Max(Len(content), pos + Len(data))
  IN [i \in 1..end |->
        IF i > pos /\ i <= pos + Len(data) THEN data[i - pos]
        ELSE IF i <= Len(content) THEN content[i]
        ELSE 0]

\* io.ReadFull(r, buf) with len(buf) = n on the bytes src from pos:
\* nil when n bytes are there (also for n = 0), io.EOF when none is,
\* io.ErrUnexpectedEOF when some but fewer than n are
ReadFull(src, pos, n) ==
  LET Read(k) == [err  |-> IF k = n THEN "nil"
                           ELSE IF k = 0 THEN "EOF" ELSE "unexpected EOF",
                  data |-> Slice(src, pos, pos + k),
                  pos  |-> pos + k]
  IN Read(Min(n, Max(Len(src) - pos, 0)))

(***************************************************************************)
(* BSON (go.mongodb.org/mongo-driver/bson)                                 *)
(***************************************************************************)
TDouble == 1
TString == 2
TDocument == 3
TArray == 4
TBinary == 5
TUndefined == 6
TObjectID == 7
TBoolean == 8
TDateTime == 9
TNull == 10
TRegex == 11
TDBPointer == 12
TJavaScript == 13
TSymbol == 14
TCodeWithScope == 15
TInt32 == 16
TTimestamp == 17
TInt64 == 18
TDecimal128 == 19
TMaxKey == 127
TMinKey == 255

Elem(k, t, v) == [key |-> k, type |-> t, val |-> v]

\* a Go string as a BSON string value
StringVal(s) == PutUint32(Len(s) + 1) \o s \o <<0>>
\* a Go int64 as a BSON int64 value
Int64Val(n) == PutUint64(n)

EncodeElem(e) == <<e.type>> \o e.key \o <<0>> \o e.val

RECURSIVE EncodeElems(_)
EncodeElems(doc) ==
  IF doc = <<>> THEN <<>> ELSE EncodeElem(Head(doc)) \o EncodeElems(Tail(doc))

\* bson.Marshal of a bson.D
Marshal(doc) ==
  LET Document(body) == PutUint32(Len(body) + 5) \o body \o <<0>>
  IN Document(EncodeElems(doc))

\* index of the first 0 byte of b at or after offset pos (0-based), or -1
RECURSIVE FindNul(_, _)
FindNul(b, pos) ==
  IF pos >= Len(b) THEN -1
  ELSE IF b[pos + 1] = 0 THEN pos
  ELSE FindNul(b, pos + 1)

\* a length-prefixed string value at offset pos of b: its size, or -1
StringSize(b, pos) ==
  LET Sized(n) == IF n < 1 \/ n > Len(b) - pos - 4 THEN -1
                  ELSE IF b[pos + 4 + n] # 0 THEN -1
                  ELSE 4 + n
  IN IF pos + 4 > Len(b) THEN -1
     ELSE Sized(Uint32(Slice(b, pos, pos + 4)))

\* a length-prefixed embedded document at offset pos of b: its size, or -1
\* (its content is checked by ValidDocument)
DocSize(b, pos) ==
  LET Sized(n) == IF n < 5 \/ n > Len(b) - pos THEN -1 ELSE n
  IN IF pos + 4 > Len(b) THEN -1
     ELSE Sized(Uint32(Slice(b, pos, pos + 4)))

RECURSIVE ParseElems(_, _)
RECURSIVE ValidDocument(_)

\* an embedded document of n bytes (or n = -1) at offset pos of b
EmbeddedSize(b, pos, n) ==
  IF n = -1 THEN -1
  ELSE IF ValidDocument(Slice(b, pos, pos + n)) THEN n ELSE -1

\* a binary value at offset pos of b, its payload n bytes long
BinarySize(b, pos, n) == IF n > Len(b) - pos - 5 THEN -1 ELSE 5 + n

\* a regular expression at offset pos of b, its pattern ending at p1
RegexSize(b, pos, p1) ==
  LET Options(p2) == IF p2 = -1 THEN -1 ELSE p2 + 1 - pos
  IN IF p1 = -1 THEN -1 ELSE Options(FindNul(b, p1 + 1))

\* a DBPointer at offset pos of b, its namespace string n bytes long
DBPointerSize(b, pos, n) ==
  IF n = -1 \/ pos + n + 12 > Len(b) THEN -1 ELSE n + 12

\* code with scope at offset pos of b: declared total size, code string of
\* s bytes, scope document
CodeWithScopeSize(b, pos, total, s) ==
  LET Scope(d) == IF d = -1 \/ total # 4 + s + d THEN -1
                  ELSE EmbeddedSize(b, pos + 4 + s, d)
  IN IF s = -1 THEN -1
     ELSE IF Scope(DocSize(b, pos + 4 + s)) = -1 THEN -1 ELSE total

\* size in bytes of the value of type t at offset pos of b, or -1 when the
\* value is malformed, runs past the end of b, or t is no BSON type
ValueSize(b, pos, t) ==
  LET fixed(n) == IF pos + n <= Len(b) THEN n ELSE -1
  IN CASE t \in {TDouble, TDateTime, TTimestamp, TInt64} -> fixed(8)
       [] t = TInt32 -> fixed(4)
       [] t = TObjectID -> fixed(12)
       [] t = TDecimal128 -> fixed(16)
       [] t \in {TUndefined, TNull, TMaxKey, TMinKey} -> 0
       [] t = TBoolean ->
            IF pos + 1 <= Len(b) /\ b[pos + 1] <= 1 THEN 1 ELSE -1
       [] t \in {TString, TJavaScript, TSymbol} -> StringSize(b, pos)
       [] t \in {TDocument, TArray} -> EmbeddedSize(b, pos, DocSize(b, pos))
       [] t = TBinary ->
            IF pos + 5 > Len(b) THEN -1
            ELSE BinarySize(b, pos, Uint32(Slice(b, pos, pos + 4)))
       [] t = TRegex -> RegexSize(b, pos, FindNul(b, pos))
       [] t = TDBPointer -> DBPointerSize(b, pos, StringSize(b, pos))
       [] t = TCodeWithScope ->
            IF pos + 4 > Len(b) THEN -1
            ELSE CodeWithScopeSize(b, pos, Uint32(Slice(b, pos, pos + 4)),
                                   StringSize(b, pos + 4))
       [] OTHER -> -1

\* the elements of the document b from offset pos up to its end byte:
\* [ok, doc]; ok is FALSE when an element is malformed or the 0 byte that
\* ends the element list is not the last byte of b
ParseElems(b, pos) ==
  LET Failed == [ok |-> FALSE, doc |-> <<>>]
      Rest(t, kz, n, rest) ==
        IF rest.ok
        THEN [ok  |-> TRUE,
              doc |-> <<Elem(Slice(b, pos + 1, kz), t,
                             Slice(b, kz + 1, kz + 1 + n))>> \o rest.doc]
        ELSE Failed
      Value(t, kz, n) ==
        IF n = -1 THEN Failed ELSE Rest(t, kz, n, ParseElems(b, kz + 1 + n))
      Key(t, kz) ==
        IF kz = -1 THEN Failed ELSE Value(t, kz, ValueSize(b, kz + 1, t))
  IN IF pos >= Len(b) THEN Failed
     ELSE IF b[pos + 1] = 0 THEN [ok |-> pos + 1 = Len(b), doc |-> <<>>]
     ELSE Key(b[pos + 1], FindNul(b, pos + 1))

ValidDocument(b) ==
  /\ Len(b) >= 5
  /\ Uint32(SubSeq(b, 1, 4)) = Len(b)
  /\ ParseElems(b, 4).ok

\* bson.Unmarshal(data, &doc): [ok, doc]; the declared length must be the
\* length of data
Unmarshal(b) ==
  IF Len(b) >= 5 /\ Uint32(SubSeq(b, 1, 4)) = Len(b)
  THEN ParseElems(b, 4)
  ELSE [ok |-> FALSE, doc |-> <<>>]

(***************************************************************************)
(* Metadata                                                                *)
(***************************************************************************)
\* "database", "collection", ... as bytes
KDatabase == <<100, 97, 116, 97, 98, 97, 115, 101>>
KCollection == <<99, 111, 108, 108, 101, 99, 116, 105, 111, 110>>
KDocumentCount == <<100, 111, 99, 117, 109, 101, 110, 116, 67, 111, 117, 110, 116>>
KTimestamp == <<116, 105, 109, 101, 115, 116, 97, 109, 112>>
KSource == <<115, 111, 117, 114, 99, 101>>
KTotalSize == <<116, 111, 116, 97, 108, 83, 105, 122, 101>>
KPlatform == <<112, 108, 97, 116, 102, 111, 114, 109>>
KOriginalSize == <<111, 114, 105, 103, 105, 110, 97, 108, 83, 105, 122, 101>>
KCompressedSize == <<99, 111, 109, 112, 114, 101, 115, 115, 101, 100, 83, 105, 122, 101>>
KArchitecture == <<97, 114, 99, 104, 105, 116, 101, 99, 116, 117, 114, 101>>
\* "cross-platform"
CrossPlatform == <<99, 114, 111, 115, 115, 45, 112, 108, 97, 116, 102, 111, 114, 109>>
\* runtime.GOARCH + "-" + runtime.GOOS of the build: "amd64-linux"
Platform == <<97, 109, 100, 54, 52, 45, 108, 105, 110, 117, 120>>

\* Metadata{} of the MCBF variant
ZeroMetadata ==
  [Database |-> <<>>, Collection |-> <<>>, DocumentCount |-> 0,
   Timestamp |-> 0, Source |-> <<>>, TotalSize |-> 0, Platform |-> <<>>]

\* Metadata{} of the MCBZ variant
ZeroMetadataZ ==
  [Database |-> <<>>, Collection |-> <<>>, DocumentCount |-> 0,
   Timestamp |-> 0, Source |-> <<>>, OriginalSize |-> 0, CompressedSize |-> 0]

\* metadataDoc of WriteFooter (MCBF)
MetadataDoc(m) ==
  << Elem(KDatabase, TString, StringVal(m.Database)),
     Elem(KCollection, TString, StringVal(m.Collection)),
     Elem(KDocumentCount, TInt64, Int64Val(m.DocumentCount)),
     Elem(KTimestamp, TInt64, Int64Val(m.Timestamp)),
     Elem(KSource, TString, StringVal(m.Source)),
     Elem(KTotalSize, TInt64, Int64Val(m.TotalSize)),
     Elem(KPlatform, TString, StringVal(m.Platform)) >>

\* metadataDoc of WriteFooter (MCBZ)
MetadataDocZ(m) ==
  << Elem(KDatabase, TString, StringVal(m.Database)),
     Elem(KCollection, TString, StringVal(m.Collection)),
     Elem(KDocumentCount, TInt64, Int64Val(m.DocumentCount)),
     Elem(KTimestamp, TInt64, Int64Val(m.Timestamp)),
     Elem(KSource, TString, StringVal(m.Source)),
     Elem(KOriginalSize, TInt64, Int64Val(m.OriginalSize)),
     Elem(KCompressedSize, TInt64, Int64Val(m.CompressedSize)),
     Elem(KArchitecture, TString, StringVal(CrossPlatform)) >>

\* metadataDoc[key] of a bson.M: the last element with that key, or the
\* type 0 when the key is absent
RECURSIVE Lookup(_, _)
Lookup(doc, key) ==
  IF doc = <<>> THEN Elem(key, 0, <<>>)
  ELSE IF doc[Len(doc)].key = key THEN doc[Len(doc)]
  ELSE Lookup(SubSeq(doc, 1, Len(doc) - 1), key)

\* v.(string) succeeds
IsString(e) == e.type = TString
\* v.(int64) succeeds
IsInt64(e) == e.type = TInt64
\* the Go string of a BSON string value
StringOf(e) == SubSeq(e.val, 5, Len(e.val) - 1)
\* the Go int64 of a BSON int64 value
Int64Of(e) == Uint64(e.val)

(***************************************************************************)
(* Body encoding shared by both writers                                    *)
(***************************************************************************)
\* the bytes a document contributes to WriteBatch: length prefix, payload
EncodeDoc(doc) ==
  LET Prefixed(data) == PutUint32(Len(data)) \o data
  IN Prefixed(Marshal(doc))

RECURSIVE EncodeDocs(_)
EncodeDocs(batch) ==
  IF batch = <<>> THEN <<>> ELSE EncodeDoc(Head(batch)) \o EncodeDocs(Tail(batch))

\* the bytes of one WriteBatch call
EncodeBatch(batch) == PutUint32(Len(batch)) \o EncodeDocs(batch)

RECURSIVE EncodeBody(_)
EncodeBody(batches) ==
  IF batches = <<>> THEN <<>>
  ELSE EncodeBatch(Head(batches)) \o EncodeBody(Tail(batches))

\* sum of len(data) + 4 over the documents of a batch
RECURSIVE BatchSize(_)
BatchSize(batch) ==
  IF batch = <<>> THEN 0
  ELSE Len(Marshal(Head(batch))) + 4 + BatchSize(Tail(batch))

(***************************************************************************)
(* zstd stream (github.com/klauspost/compress/zstd), in stored form: a     *)
(* frame is magic, frame header, one raw last block, content checksum.     *)
(* An encoder that received no byte emits nothing on Close.                *)
(***************************************************************************)
zstdMagic == <<40, 181, 47, 253>>
\* frame header descriptor: content checksum flag set
zstdFHD == 4
\* window descriptor
zstdWindow == 0

RECURSIVE SumBytes(_)
SumBytes(b) == IF b = <<>> THEN 0 ELSE Head(b) + SumBytes(Tail(b))

\* stand-in for the content checksum (low 32 bits of xxhash64)
Checksum(data) == PutUint32(SumBytes(data))

\* raw block header: Last_Block = 1, Block_Type = 0, Block_Size
BlockHeader(n) == SubSeq(PutUint32(n * 8 + 1), 1, 3)

\* what Compressor.Write* followed by Compressor.Close puts in the file
ZFrame(data) ==
  IF data = <<>> THEN <<>>
  ELSE zstdMagic \o <<zstdFHD, zstdWindow>> \o BlockHeader(Len(data))
       \o data \o Checksum(data)

\* the stream a Decompressor yields over the bytes b: the decoded data and
\* the error that ends it (io.EOF for a clean end)
RECURSIVE ZDecode(_)
ZDecode(b) ==
  IF b = <<>> THEN [data |-> <<>>, err |-> "EOF"]
  ELSE IF Len(b) < 4 THEN [data |-> <<>>, err |-> "unexpected EOF"]
  ELSE IF SubSeq(b, 1, 4) # zstdMagic
       THEN [data |-> <<>>, err |-> "magic number mismatch"]
  ELSE IF Len(b) < 9 THEN [data |-> <<>>, err |-> "unexpected EOF"]
  ELSE IF b[5] # zstdFHD \/ b[9] # 0 \/ b[7] % 8 # 1
       THEN [data |-> <<>>, err |-> "corrupt input"]
  ELSE LET Joined(data, rest) ==
             [data |-> data \o rest.data, err |-> rest.err]
           Block(n, data) ==
             IF Slice(b, 9 + n, 9 + n + 4) # Checksum(data)
             THEN [data |-> <<>>, err |-> "corrupt input"]
             ELSE Joined(data, ZDecode(Slice(b, 9 + n + 4, Len(b))))
           Sized(n) ==
             IF Len(b) < 9 + n + 4 THEN [data |-> <<>>, err |-> "unexpected EOF"]
             ELSE Block(n, Slice(b, 9, 9 + n))
       IN Sized((b[7] + 256 * b[8]) \div 8)

\* io.ReadFull(r.decompressor, buf) with len(buf) = n at offset pos of the
\* decoded stream
ReadFullZ(stream, pos, n) ==
  LET Read(k) == [err  |-> IF k = n THEN "nil"
                           ELSE IF k = 0 THEN stream.err
                           ELSE IF stream.err = "EOF" THEN "unexpected EOF"
                           ELSE stream.err,
                  data |-> Slice(stream.data, pos, pos + k),
                  pos  |-> pos + k]
  IN Read(Min(n, Max(Len(stream.data) - pos, 0)))

(***************************************************************************)
(* FileReader.ReadHeader                                                   *)
(***************************************************************************)
\* the result of a handler of the reader: the error, the file position it
\* leaves, the value it returns, the sizes it passed to make, in order
HeaderResult(e, p, m, a) == [err |-> e, pos |-> p, metadata |-> m, alloc |-> a]

\* lines 259-290 of the MCBF reader: every field by a checked assertion
ExtractMetadata(doc) ==
  LET String(e) == IF IsString(e) THEN StringOf(e) ELSE <<>>
      Int64(e)  == IF IsInt64(e) THEN Int64Of(e) ELSE 0
  IN [Database      |-> String(Lookup(doc, KDatabase)),
      Collection    |-> String(Lookup(doc, KCollection)),
      DocumentCount |-> Int64(Lookup(doc, KDocumentCount)),
      Timestamp     |-> Int64(Lookup(doc, KTimestamp)),
      Source        |-> String(Lookup(doc, KSource)),
      TotalSize     |-> Int64(Lookup(doc, KTotalSize)),
      Platform      |-> String(Lookup(doc, KPlatform))]

\* lines 247-290: the metadata blob of metadataLength bytes at offset pos
HeaderBlobF(src, pos, metadataLength) ==
  LET Decoded(p, md) ==
        IF ~md.ok
        THEN HeaderResult("failed to unmarshal metadata", p, ZeroMetadata,
                          <<metadataLength>>)
        ELSE HeaderResult("nil", p, ExtractMetadata(md.doc), <<metadataLength>>)
      Blob(mb) ==
        IF mb.err # "nil"
        THEN HeaderResult("failed to read metadata", mb.pos, ZeroMetadata,
                          <<metadataLength>>)
        ELSE Decoded(mb.pos, Unmarshal(mb.data))
  IN Blob(ReadFull(src, pos, metadataLength))

\* the ceiling test of line 243 with >= for >
HeaderLengthF_AtCeiling(src, pos) ==
  LET Length(lb) ==
        IF lb.err # "nil"
        THEN HeaderResult("failed to read metadata length", lb.pos, ZeroMetadata, <<>>)
        ELSE IF Uint64(lb.data) >= MaxMetadataLen
        THEN HeaderResult("metadata too large", lb.pos, ZeroMetadata, <<>>)
        ELSE HeaderBlobF(src, lb.pos, Uint64(lb.data))
  IN Length(ReadFull(src, pos, 8))

\* lines 236-245: the 8-byte metadata length at offset pos and its ceiling
HeaderLengthF(src, pos) ==
  LET Length(lb) ==
        IF lb.err # "nil"
        THEN HeaderResult("failed to read metadata length", lb.pos, ZeroMetadata, <<>>)
        ELSE IF Uint64(lb.data) > MaxMetadataLen
        THEN HeaderResult("metadata too large", lb.pos, ZeroMetadata, <<>>)
        ELSE HeaderBlobF(src, lb.pos, Uint64(lb.data))
  IN Length(ReadFull(src, pos, 8))

\* lines 226-234: the version byte at offset pos
HeaderVersionF(src, pos) ==
  LET Version(vb) ==
        IF vb.err # "nil"
        THEN HeaderResult("failed to read version", vb.pos, ZeroMetadata, <<>>)
        ELSE IF vb.data[1] # fileVersion
        THEN HeaderResult("unsupported file version", vb.pos, ZeroMetadata, <<>>)
        ELSE HeaderLengthF(src, vb.pos)
  IN Version(ReadFull(src, pos, 1))

\* ReadHeader reading marker and version byte together before testing either
ReadHeaderF_ReadAhead(src, pos) ==
  LET Magic(mg) ==
        IF mg.err # "nil"
        THEN HeaderResult("failed to read magic bytes", mg.pos, ZeroMetadata, <<>>)
        ELSE IF SubSeq(mg.data, 1, 4) # magicBytes
        THEN HeaderResult("invalid file format", mg.pos, ZeroMetadata, <<>>)
        ELSE HeaderVersionF(src, pos + 4)
  IN Magic(ReadFull(src, pos, 5))

\* ReadHeader of the MCBF reader on the file content src from offset pos
ReadHeaderF(src, pos) ==
  LET Magic(mg) ==
        IF mg.err # "nil"
        THEN HeaderResult("failed to read magic bytes", mg.pos, ZeroMetadata, <<>>)
        ELSE IF mg.data # magicBytes
        THEN HeaderResult("invalid file format", mg.pos, ZeroMetadata, <<>>)
        ELSE HeaderVersionF(src, mg.pos)
  IN Magic(ReadFull(src, pos, 4))

\* lines 261-269 of the MCBZ reader: every field by an unchecked assertion,
\* which panics when the key is missing or holds another type
AssertionsHold(doc) ==
  /\ IsString(Lookup(doc, KDatabase))
  /\ IsString(Lookup(doc, KCollection))
  /\ IsInt64(Lookup(doc, KDocumentCount))
  /\ IsInt64(Lookup(doc, KTimestamp))
  /\ IsString(Lookup(doc, KSource))
  /\ IsInt64(Lookup(doc, KOriginalSize))
  /\ IsInt64(Lookup(doc, KCompressedSize))

ExtractMetadataZ(doc) ==
  [Database       |-> StringOf(Lookup(doc, KDatabase)),
   Collection     |-> StringOf(Lookup(doc, KCollection)),
   DocumentCount  |-> Int64Of(Lookup(doc, KDocumentCount)),
   Timestamp      |-> Int64Of(Lookup(doc, KTimestamp)),
   Source         |-> StringOf(Lookup(doc, KSource)),
   OriginalSize   |-> Int64Of(Lookup(doc, KOriginalSize)),
   CompressedSize |-> Int64Of(Lookup(doc, KCompressedSize))]

\* lines 247-278: the metadata blob of metadataLength bytes at offset pos,
\* the assertions
HeaderBlobZ(src, pos, metadataLength) ==
  LET Decoded(p, md) ==
        IF ~md.ok
        THEN HeaderResult("bson error", p, ZeroMetadataZ, <<metadataLength>>)
        ELSE IF ~AssertionsHold(md.doc)
        THEN HeaderResult("panic", p, ZeroMetadataZ, <<metadataLength>>)
        ELSE HeaderResult("nil", p, ExtractMetadataZ(md.doc), <<metadataLength>>)
      Blob(mb) ==
        IF mb.err # "nil"
        THEN HeaderResult(mb.err, mb.pos, ZeroMetadataZ, <<metadataLength>>)
        ELSE Decoded(mb.pos, Unmarshal(mb.data))
  IN Blob(ReadFull(src, pos, metadataLength))

\* lines 241-245: the 4-byte metadata length at offset pos
HeaderLengthZ(src, pos) ==
  LET Length(lb) ==
        IF lb.err # "nil"
        THEN HeaderResult(lb.err, lb.pos, ZeroMetadataZ, <<>>)
        ELSE HeaderBlobZ(src, lb.pos, Uint32(lb.data))
  IN Length(ReadFull(src, pos, 4))

\* lines 232-239: the version byte at offset pos
HeaderVersionZ(src, pos) ==
  LET Version(vb) ==
        IF vb.err # "nil"
        THEN HeaderResult(vb.err, vb.pos, ZeroMetadataZ, <<>>)
        ELSE IF vb.data[1] # fileVersion
        THEN HeaderResult("unsupported file version", vb.pos, ZeroMetadataZ, <<>>)
        ELSE HeaderLengthZ(src, vb.pos)
  IN Version(ReadFull(src, pos, 1))

\* ReadHeader of the MCBZ reader on the file content src from offset pos
ReadHeaderZ(src, pos) ==
  LET Magic(mg) ==
        IF mg.err # "nil"
        THEN HeaderResult(mg.err, mg.pos, ZeroMetadataZ, <<>>)
        ELSE IF mg.data # magicNumber
        THEN HeaderResult("invalid file format", mg.pos, ZeroMetadataZ, <<>>)
        ELSE HeaderVersionZ(src, mg.pos)
  IN Magic(ReadFull(src, pos, 4))

(***************************************************************************)
(* FileReader.ReadBatch                                                    *)
(***************************************************************************)
BatchResult(e, p, b, a) == [err |-> e, pos |-> p, batch |-> b, alloc |-> a]

\* the loop of lines 318-347 of the MCBF reader from iteration i
RECURSIVE ReadDocsF(_, _, _, _, _, _)
ReadDocsF(src, pos, i, actualBatchSize, batch, alloc) ==
  LET Decoded(p, al, doc) ==
        IF ~doc.ok
        THEN BatchResult("failed to unmarshal document", p, batch, al)
        ELSE ReadDocsF(src, p, i + 1, actualBatchSize, Append(batch, doc.doc), al)
      Payload(al, db) ==
        IF db.err # "nil"
        THEN BatchResult("failed to read document data", db.pos, batch, al)
        ELSE Decoded(db.pos, al, Unmarshal(db.data))
      Length(p, docLength) ==
        IF docLength > MaxDocLength
        THEN BatchResult("document too large", p, batch, alloc)
        ELSE Payload(Append(alloc, docLength), ReadFull(src, p, docLength))
      Prefix(lb) ==
        IF lb.err # "nil"
        THEN IF lb.err = "EOF" /\ i > 0
             THEN BatchResult("nil", lb.pos, batch, alloc)
             ELSE BatchResult("failed to read document length", lb.pos, batch, alloc)
        ELSE Length(lb.pos, Uint32(lb.data))
  IN IF i >= actualBatchSize THEN BatchResult("nil", pos, batch, alloc)
     ELSE Prefix(ReadFull(src, pos, 4))

\* lines 310-316: the clamp of the declared count and the batch slice
BatchSliceF(src, pos, actualBatchSize) ==
  IF actualBatchSize < 0 THEN BatchResult("panic", pos, <<>>, <<>>)
  ELSE ReadDocsF(src, pos, 0, actualBatchSize, <<>>, <<actualBatchSize>>)

\* ReadBatch taking a short read of a payload for the end of the batch, as
\* it takes the end of the file at a length prefix
ReadBatchF_ShortPayloadEndsBatch(src, pos, maxBatchSize) ==
  LET Lenient(res) ==
        IF res.err = "failed to read document data"
        THEN [res EXCEPT !.err = "nil"] ELSE res
      Length(p, batchLength) ==
        IF batchLength > MaxBatchLength
        THEN BatchResult("batch size too large", p, <<>>, <<>>)
        ELSE Lenient(BatchSliceF(src, p, Min(batchLength, maxBatchSize)))
      Count(bl) ==
        IF bl.err # "nil"
        THEN IF bl.err = "EOF"
             THEN BatchResult("nil", bl.pos, <<>>, <<>>)
             ELSE BatchResult("failed to read batch length", bl.pos, <<>>, <<>>)
        ELSE Length(bl.pos, Uint32(bl.data))
  IN Count(ReadFull(src, pos, 4))

\* ReadBatch taking the end of the file at a batch count for a failed read
ReadBatchF_EofIsError(src, pos, maxBatchSize) ==
  LET Length(p, batchLength) ==
        IF batchLength > MaxBatchLength
        THEN BatchResult("batch size too large", p, <<>>, <<>>)
        ELSE BatchSliceF(src, p, Min(batchLength, maxBatchSize))
      Count(bl) ==
        IF bl.err # "nil"
        THEN IF FALSE
             THEN BatchResult("nil", bl.pos, <<>>, <<>>)
             ELSE BatchResult("failed to read batch length", bl.pos, <<>>, <<>>)
        ELSE Length(bl.pos, Uint32(bl.data))
  IN Count(ReadFull(src, pos, 4))

\* the ceiling test of line 305 with >= for >
ReadBatchF_AtCeiling(src, pos, maxBatchSize) ==
  LET Length(p, batchLength) ==
        IF batchLength >= MaxBatchLength
        THEN BatchResult("batch size too large", p, <<>>, <<>>)
        ELSE BatchSliceF(src, p, Min(batchLength, maxBatchSize))
      Count(bl) ==
        IF bl.err # "nil"
        THEN IF bl.err = "EOF"
             THEN BatchResult("nil", bl.pos, <<>>, <<>>)
             ELSE BatchResult("failed to read batch length", bl.pos, <<>>, <<>>)
        ELSE Length(bl.pos, Uint32(bl.data))
  IN Count(ReadFull(src, pos, 4))

\* ReadBatch without the clamp of lines 311-313
ReadBatchF_NoClamp(src, pos, maxBatchSize) ==
  LET Length(p, batchLength) ==
        IF batchLength > MaxBatchLength
        THEN BatchResult("batch size too large", p, <<>>, <<>>)
        ELSE BatchSliceF(src, p, batchLength)
      Count(bl) ==
        IF bl.err # "nil"
        THEN IF bl.err = "EOF"
             THEN BatchResult("nil", bl.pos, <<>>, <<>>)
             ELSE BatchResult("failed to read batch length", bl.pos, <<>>, <<>>)
        ELSE Length(bl.pos, Uint32(bl.data))
  IN Count(ReadFull(src, pos, 4))

\* ReadBatch taking the end of the file at a length prefix for a failed
\* read whatever the number of documents read before
ReadBatchF_PartialIsError(src, pos, maxBatchSize) ==
  LET Strict(res, actualBatchSize) ==
        IF res.err = "nil" /\ Len(res.batch) < actualBatchSize
        THEN [res EXCEPT !.err = "failed to read document length"] ELSE res
      Length(p, batchLength) ==
        IF batchLength > MaxBatchLength
        THEN BatchResult("batch size too large", p, <<>>, <<>>)
        ELSE Strict(BatchSliceF(src, p, Min(batchLength, maxBatchSize)),
                    Min(batchLength, maxBatchSize))
      Count(bl) ==
        IF bl.err # "nil"
        THEN IF bl.err = "EOF"
             THEN BatchResult("nil", bl.pos, <<>>, <<>>)
             ELSE BatchResult("failed to read batch length", bl.pos, <<>>, <<>>)
        ELSE Length(bl.pos, Uint32(bl.data))
  IN Count(ReadFull(src, pos, 4))

\* ReadBatch(maxBatchSize) of the MCBF reader on the file content src from
\* offset pos; the first entry of alloc is the capacity of the batch slice
ReadBatchF(src, pos, maxBatchSize) ==
  LET Length(p, batchLength) ==
        IF batchLength > MaxBatchLength
        THEN BatchResult("batch size too large", p, <<>>, <<>>)
        ELSE BatchSliceF(src, p, Min(batchLength, maxBatchSize))
      Count(bl) ==
        IF bl.err # "nil"
        THEN IF bl.err = "EOF"
             THEN BatchResult("nil", bl.pos, <<>>, <<>>)
             ELSE BatchResult("failed to read batch length", bl.pos, <<>>, <<>>)
        ELSE Length(bl.pos, Uint32(bl.data))
  IN Count(ReadFull(src, pos, 4))

\* the loop of lines 302-323 of the MCBZ reader from iteration i
RECURSIVE ReadDocsZ(_, _, _, _, _, _)
ReadDocsZ(stream, pos, i, actualBatchSize, batch, alloc) ==
  LET Decoded(p, al, doc) ==
        IF ~doc.ok
        THEN BatchResult("bson error", p, batch, al)
        ELSE ReadDocsZ(stream, p, i + 1, actualBatchSize, Append(batch, doc.doc), al)
      Payload(al, db) ==
        IF db.err # "nil"
        THEN BatchResult(db.err, db.pos, batch, al)
        ELSE Decoded(db.pos, al, Unmarshal(db.data))
      Length(p, docLength) ==
        Payload(Append(alloc, docLength), ReadFullZ(stream, p, docLength))
      Prefix(lb) ==
        IF lb.err # "nil"
        THEN BatchResult(lb.err, lb.pos, batch, alloc)
        ELSE Length(lb.pos, Uint32(lb.data))
  IN IF i >= actualBatchSize THEN BatchResult("nil", pos, batch, alloc)
     ELSE Prefix(ReadFullZ(stream, pos, 4))

\* lines 293-299: the clamp of the declared count and the batch slice
BatchSliceZ(stream, pos, actualBatchSize) ==
  IF actualBatchSize < 0 THEN BatchResult("panic", pos, <<>>, <<>>)
  ELSE ReadDocsZ(stream, pos, 0, actualBatchSize, <<>>, <<actualBatchSize>>)

\* ReadBatch(maxBatchSize) of the MCBZ reader at offset pos of the decoded
\* stream
ReadBatchZ(stream, pos, maxBatchSize) ==
  LET Count(bl) ==
        IF bl.err # "nil"
        THEN IF bl.err = "EOF"
             THEN BatchResult("nil", bl.pos, <<>>, <<>>)
             ELSE BatchResult(bl.err, bl.pos, <<>>, <<>>)
        ELSE BatchSliceZ(stream, bl.pos, Min(Uint32(bl.data), maxBatchSize))
  IN Count(ReadFullZ(stream, pos, 4))

(***************************************************************************)
(* Inputs of the model                                                     *)
(***************************************************************************)
\* {"a": true}
DocA == <<Elem(<<97>>, TBoolean, <<1>>)>>
\* {}
DocB == <<>>

BatchInputs == {<<>>, <<DocA>>, <<DocB, DocA>>}

\* {database:"d", collection:"c", timestamp:1700000000, source:"h:1"}
MetaA ==
  [Database |-> <<100>>, Collection |-> <<99>>, DocumentCount |-> 0,
   Timestamp |-> 1700000000, Source |-> <<104, 58, 49>>, TotalSize |-> 0,
   Platform |-> <<>>]
MetaB ==
  [Database |-> <<120, 121>>, Collection |-> <<>>, DocumentCount |-> 2,
   Timestamp |-> 5, Source |-> <<115>>, TotalSize |-> 7, Platform |-> <<112>>]

MetadataInputs == {MetaA, MetaB}
CountInputs == {0, 1, 3}
FooterInputs ==
  {[m EXCEPT !.DocumentCount = c] : m \in MetadataInputs, c \in CountInputs}

\* the metadata a caller passes to the MCBZ writer
MetaZA ==
  [Database |-> <<100>>, Collection |-> <<99>>, DocumentCount |-> 0,
   Timestamp |-> 1700000000, Source |-> <<104, 58, 49>>, OriginalSize |-> 0,
   CompressedSize |-> 0]
MetaZB ==
  [Database |-> <<>>, Collection |-> <<>>, DocumentCount |-> 2,
   Timestamp |-> 0, Source |-> <<>>, OriginalSize |-> 7, CompressedSize |-> 9]

MetadataInputsZ == {MetaZA, MetaZB}
FooterInputsZ ==
  {[m EXCEPT !.DocumentCount = c] : m \in MetadataInputsZ, c \in CountInputs}

\* the limits a reader passes to ReadBatch
LimitInputs == (-1)..MaxLimit

(***************************************************************************)
(* Files handed to a reader: containers laid out as ReadHeader and         *)
(* ReadBatch expect them, cut at an offset or with one field crafted       *)
(***************************************************************************)
Variants == {"MCBF", "MCBZ"}

\* the bodies of the input containers: non-empty batches
BodyInputs ==
  {<<>>, <<<<DocA>>>>, <<<<DocB, DocA>>>>, <<<<DocA>>, <<DocB, DocA>>>>,
   <<<<DocB, DocA>>, <<DocA>>>>}

MetaZ ==
  [Database |-> <<100>>, Collection |-> <<99>>, DocumentCount |-> 3,
   Timestamp |-> 1700000000, Source |-> <<104, 58, 49>>, OriginalSize |-> 40,
   CompressedSize |-> 53]
MetaF == [MetaA EXCEPT !.DocumentCount = 3, !.TotalSize = 40, !.Platform = Platform]

\* the metadata document of the input containers
InputDoc(variant) ==
  IF variant = "MCBF" THEN MetadataDoc(MetaF) ELSE MetadataDocZ(MetaZ)

\* header of a container: marker, version byte, length prefix, blob
Header(marker, version, lengthBytes, blob) ==
  marker \o <<version>> \o lengthBytes \o blob

Marker(variant) == IF variant = "MCBF" THEN magicBytes ELSE magicNumber
PutLength(variant, n) == IF variant = "MCBF" THEN PutUint64(n) ELSE PutUint32(n)
\* offset of the metadata blob
BlobOffset(variant) == IF variant = "MCBF" THEN 13 ELSE 9

ValidHeader(variant, doc) ==
  LET Valid(blob) ==
        Header(Marker(variant), fileVersion, PutLength(variant, Len(blob)), blob)
  IN Valid(Marshal(doc))

\* the body bytes as they lie in the file
BodyBytes(variant, body) == IF variant = "MCBF" THEN body ELSE ZFrame(body)

\* offset in the file of offset 0 of the body bytes written by WriteBatch
BodyOffset(variant) ==
  Len(ValidHeader(variant, InputDoc(variant))) + IF variant = "MCBF" THEN 0 ELSE 9

Container(variant, batches) ==
  ValidHeader(variant, InputDoc(variant)) \o BodyBytes(variant, EncodeBody(batches))

\* values of a crafted 4-byte field, as bytes
FieldInputs ==
  {PutUint32(0), PutUint32(3), PutUint32(100), PutUint32(MaxBatchLength),
   PutUint32(MaxBatchLength + 1), PutUint32(MaxDocLength),
   PutUint32(MaxDocLength + 1), <<255, 255, 255, 255>>}

\* values of a crafted metadata length, as the low 4 and the high 4 bytes
LengthInputs ==
  {<<PutUint32(0), PutUint32(0)>>, <<PutUint32(5), PutUint32(0)>>,
   <<PutUint32(MaxMetadataLen - 1), PutUint32(0)>>,
   <<PutUint32(MaxMetadataLen), PutUint32(0)>>,
   <<PutUint32(MaxMetadataLen + 1), PutUint32(0)>>,
   <<PutUint32(0), PutUint32(1)>>, <<<<255, 255, 255, 255>>, PutUint32(0)>>}

\* the known keys of a variant's metadata, the type the reader asserts,
\* and an element of another type under the same key
KnownKeys(variant) ==
  IF variant = "MCBF"
  THEN <<KDatabase, KCollection, KDocumentCount, KTimestamp, KSource,
         KTotalSize, KPlatform>>
  ELSE <<KDatabase, KCollection, KDocumentCount, KTimestamp, KSource,
         KOriginalSize, KCompressedSize>>

WrongType(e) ==
  IF e.type = TString THEN Elem(e.key, TInt32, PutUint32(7))
  ELSE Elem(e.key, TString, StringVal(<<51>>))

\* the metadata document with the element at position k missing or of a
\* wrong type
CraftDoc(doc, k, how) ==
  IF how = "missing"
  THEN SubSeq(doc, 1, k - 1) \o SubSeq(doc, k + 1, Len(doc))
  ELSE [doc EXCEPT ![k] = WrongType(doc[k])]

\* {"ab": true}, 10 bytes when marshalled
DocAB == <<Elem(<<97, 98>>, TBoolean, <<1>>)>>

\* the sizes of the payloads of the batch of opaque documents
OpaqueSizes == <<10, 0, 4096>>

\* n bytes that are no BSON document
Opaque(n) == [i \in 1..n |-> 7]

\* payloads of the sizes of OpaqueSizes: bytes that are no BSON document, or
\* a BSON document where the size allows one
OpaquePayloads(how) ==
  [i \in 1..Len(OpaqueSizes) |->
     IF how = "bson" /\ OpaqueSizes[i] = Len(Marshal(DocAB)) THEN Marshal(DocAB)
     ELSE Opaque(OpaqueSizes[i])]

\* one batch as WriteBatch lays it out, of payloads instead of documents
RECURSIVE EncodePayloads(_)
EncodePayloads(payloads) ==
  IF payloads = <<>> THEN <<>>
  ELSE PutUint32(Len(Head(payloads))) \o Head(payloads)
       \o EncodePayloads(Tail(payloads))

\* a body with an empty batch between two batches of documents, as
\* WriteBatch lays it out when it is given an empty batch
EmptyBatchBody == <<<<DocA>>, <<>>, <<DocB, DocA>>>>

NoInput ==
  [kind |-> "none", variant |-> "MCBF", batches |-> <<>>, cut |-> 0,
   field |-> <<>>, key |-> 0, how |-> "",
   docs |-> <<>>, batchSize |-> 0, fail |-> "none", at |-> 0]

\* offsets at which an input container is cut: some in the header, every
\* offset from the end of the header on (the length of the file: no cut)
CutOffsets(variant, batches) ==
  LET h == Len(ValidHeader(variant, InputDoc(variant)))
  IN {0, 3, 4, 5, BlobOffset(variant), h - 1}
     \cup (h..Len(Container(variant, batches)))

Inputs ==
  {[NoInput EXCEPT !.kind = "container", !.variant = v, !.batches = b, !.cut = c] :
      <<v, b, c>> \in {x \in Variants \X BodyInputs \X (0..400) :
                         x[3] \in CutOffsets(x[1], x[2])}}
  \cup {[NoInput EXCEPT !.kind = "marker", !.variant = v, !.field = f] :
          v \in Variants, f \in {<<0, 0, 0, 0>>, <<77, 67, 66, 66>>, <<78, 67, 66, 70>>}}
  \cup {[NoInput EXCEPT !.kind = "version", !.variant = v, !.field = f] :
          v \in Variants, f \in {<<0>>, <<2>>, <<255>>}}
  \cup {[NoInput EXCEPT !.kind = "length", !.variant = v, !.field = f] :
          v \in Variants, f \in LengthInputs}
  \cup {[NoInput EXCEPT !.kind = "count", !.variant = v, !.field = f] :
          v \in Variants, f \in FieldInputs}
  \cup {[NoInput EXCEPT !.kind = "doclen", !.variant = v, !.field = f] :
          v \in Variants, f \in FieldInputs}
  \cup {[NoInput EXCEPT !.kind = "meta", !.variant = v, !.key = k, !.how = h] :
          v \in Variants, k \in 1..7, h \in {"missing", "wrongtype"}}
  \cup {[NoInput EXCEPT !.kind = "opaque", !.how = h] : h \in {"bytes", "bson"}}
  \cup {[NoInput EXCEPT !.kind = "emptybatch", !.variant = v,
                         !.batches = EmptyBatchBody] : v \in Variants}

\* the bytes of an input file
FileOf(in) ==
  LET File(v, blob, whole) ==
        CASE in.kind = "container" ->
               SubSeq(Container(v, in.batches), 1, in.cut)
          [] in.kind = "marker" -> in.field \o SubSeq(whole, 5, Len(whole))
          [] in.kind = "version" ->
               Header(Marker(v), in.field[1], PutLength(v, Len(blob)), blob)
               \o BodyBytes(v, EncodeBody(<<<<DocA>>>>))
          [] in.kind = "length" ->
               Header(Marker(v), fileVersion,
                      IF v = "MCBF" THEN in.field[1] \o in.field[2]
                      ELSE in.field[1],
                      blob)
          [] in.kind = "count" ->
               ValidHeader(v, InputDoc(v))
               \o BodyBytes(v, in.field \o EncodeDocs(<<DocA, DocB>>))
          [] in.kind = "doclen" ->
               ValidHeader(v, InputDoc(v))
               \o BodyBytes(v, PutUint32(1) \o in.field \o Marshal(DocA))
          [] in.kind = "meta" ->
               ValidHeader(v, CraftDoc(InputDoc(v), in.key, in.how))
               \o BodyBytes(v, EncodeBody(<<<<DocA>>>>))
          [] in.kind = "emptybatch" -> Container(v, in.batches)
          [] in.kind = "opaque" ->
               ValidHeader(v, InputDoc(v))
               \o PutUint32(Len(OpaqueSizes))
               \o EncodePayloads(OpaquePayloads(in.how))
          [] OTHER -> <<>>
  IN File(in.variant, Marshal(InputDoc(in.variant)),
          Container(in.variant, <<<<DocA>>>>))

(***************************************************************************)
(* State                                                                   *)
(***************************************************************************)
VARIABLES
  disk,     \* content of the file at the path
  exists,   \* the file exists
  w,        \* the FileWriter (of either variant) and what it was asked to write
  r,        \* the FileReader and what it returned so far
  ret,      \* the last call of the reader or writer and its result
  input     \* what the file was made of, when it was handed to the reader

vars == <<disk, exists, w, r, ret, input>>

NoWriter ==
  [state |-> "absent", pos |-> 0, headerOffset |-> 0, metadata |-> ZeroMetadata,
   written |-> <<>>, hasHeader |-> FALSE, m0 |-> ZeroMetadata,
   finalized |-> FALSE, m1 |-> ZeroMetadata, trace |-> <<>>,
   variant |-> "MCBF", compressor |-> "nil", zbuf |-> <<>>, fdCloses |-> 0]

NoReader ==
  [state |-> "absent", variant |-> "MCBF", maxBatchSize |-> 0, pos |-> 0,
   decompressor |-> FALSE, bodyStart |-> 0, zpos |-> 0,
   metadata |-> ZeroMetadata, header |-> "none", reads |-> 0, got |-> <<>>,
   ended |-> FALSE, failed |-> FALSE, trace |-> <<>>, fdCloses |-> 0]

Ret(op, err) ==
  [op |-> op, err |-> err, batch |-> <<>>, metadata |-> ZeroMetadata,
   alloc |-> <<>>, pos0 |-> 0, recv |-> "", again |-> FALSE, disk0 |-> <<>>,
   count |-> 0]

(***************************************************************************)
(* FileWriter (MCBF)                                                       *)
(***************************************************************************)
\* a placeholder that is already a header with an empty metadata document
Placeholder_EmptyHeader ==
  magicBytes \o <<fileVersion>> \o PutUint64(5) \o Marshal(<<>>)

\* the placeholder NewFileWriter writes at the header offset: 4 + 1 + 8 zero
\* bytes
Placeholder == Zeros(PlaceholderLen)

\* os.Create, file.Seek(0, io.SeekCurrent), the 13-byte placeholder
NewFileWriter ==
  /\ w.state = "absent"
  /\ r.state = "absent"
  /\ disk' = WriteAt(<<>>, 0, Placeholder)
  /\ exists' = TRUE
  /\ w' = [NoWriter EXCEPT !.state = "open", !.pos = PlaceholderLen,
                           !.headerOffset = 0,
                           !.metadata = [ZeroMetadata EXCEPT !.Platform = Platform]]
  /\ ret' = Ret("NewFileWriter", "nil")
  /\ UNCHANGED <<r, input>>

WriteHeader(metadata) ==
  /\ w.variant = "MCBF"
  /\ w.state = "open"
  /\ ~w.hasHeader
  /\ w' = [w EXCEPT !.metadata = [metadata EXCEPT !.Platform = Platform],
                    !.hasHeader = TRUE, !.m0 = metadata,
                    !.trace = Append(@, "H")]
  /\ ret' = Ret("WriteHeader", "nil")
  /\ UNCHANGED <<disk, exists, r, input>>

WriteBatch(batch) ==
  /\ w.variant = "MCBF"
  /\ w.state = "open"
  /\ Len(w.written) < MaxBatches
  /\ \E data \in {EncodeBatch(batch)} :
        /\ disk' = WriteAt(disk, w.pos, data)
        /\ w' = [w EXCEPT !.pos = w.pos + Len(data),
                          !.metadata.TotalSize = w.metadata.TotalSize + BatchSize(batch),
                          !.written = Append(w.written, batch),
                          !.trace = Append(@, "B")]
  /\ ret' = [Ret("WriteBatch", "nil") EXCEPT !.disk0 = disk]
  /\ UNCHANGED <<exists, r, input>>

\* the header with the 4-byte length prefix of the other variant
HeaderBytes_ShortLength(metadata) ==
  LET Bytes(metadataBytes) ==
        magicBytes \o <<fileVersion>> \o PutUint32(Len(metadataBytes))
        \o metadataBytes
  IN Bytes(Marshal(MetadataDoc(metadata)))

\* the bytes WriteFooter writes from the header offset: magic, version,
\* 8-byte metadata length, metadata
HeaderBytes(metadata) ==
  LET Bytes(metadataBytes) ==
        magicBytes \o <<fileVersion>> \o PutUint64(Len(metadataBytes))
        \o metadataBytes
  IN Bytes(Marshal(MetadataDoc(metadata)))

\* WriteFooter taking every caller-supplied field from its argument
FooterMetadata_AllFields(stored, metadata) ==
  [metadata EXCEPT !.TotalSize = stored.TotalSize, !.Platform = stored.Platform]

\* the metadata WriteFooter(metadata) stores in a writer that holds stored
FooterMetadata(stored, metadata) ==
  [stored EXCEPT !.DocumentCount = metadata.DocumentCount]

WriteFooter(metadata) ==
  /\ w.variant = "MCBF"
  /\ w.state = "open"
  /\ ~w.finalized
  /\ \E final \in {FooterMetadata(w.metadata, metadata)} :
        /\ disk' = WriteAt(disk, w.headerOffset, HeaderBytes(final))
        /\ w' = [w EXCEPT !.metadata = final, !.finalized = TRUE, !.m1 = metadata,
                          !.trace = Append(@, "F")]
  /\ ret' = [Ret("WriteFooter", "nil") EXCEPT !.disk0 = disk]
  /\ UNCHANGED <<exists, r, input>>

\* Close: w.file.Close() and w.file = nil; nothing when w.file is nil
WriterClose ==
  /\ w.variant = "MCBF"
  /\ w.state \in {"open", "closed"}
  /\ w' = [w EXCEPT !.state = "closed",
                    !.fdCloses = IF w.state = "open" THEN @ + 1 ELSE @,
                    !.trace = IF w.state = "open" THEN Append(@, "C") ELSE @]
  /\ ret' = [Ret("Close", "nil") EXCEPT !.recv = "writer",
                                        !.again = (w.state = "closed")]
  /\ UNCHANGED <<disk, exists, r, input>>

(***************************************************************************)
(* FileWriter (MCBZ)                                                       *)
(***************************************************************************)
\* the offset NewFileWriter seeks to before the compressor is created
headerSize == 4 + 1 + 4 + 100

\* (*os.File).Close on a file that was closed before
ErrClosed == "file already closed"

\* (*zstd.Encoder).Write on an encoder that was closed before
ErrEncoderClosed == "encoder closed"

\* os.Create, file.Seek(headerSize, io.SeekStart), NewCompressor(file); the
\* seek past the end writes nothing
NewFileWriterZ ==
  /\ w.state = "absent"
  /\ r.state = "absent"
  /\ disk' = <<>>
  /\ exists' = TRUE
  /\ w' = [NoWriter EXCEPT !.variant = "MCBZ", !.state = "open",
                           !.pos = headerSize, !.compressor = "open",
                           !.metadata = ZeroMetadataZ, !.m0 = ZeroMetadataZ,
                           !.m1 = ZeroMetadataZ]
  /\ ret' = Ret("NewFileWriter", "nil")
  /\ UNCHANGED <<r, input>>

WriteHeaderZ(metadata) ==
  /\ w.variant = "MCBZ"
  /\ w.state = "open"
  /\ ~w.hasHeader
  /\ w' = [w EXCEPT !.metadata = metadata, !.hasHeader = TRUE, !.m0 = metadata,
                    !.trace = Append(@, "H")]
  /\ ret' = Ret("WriteHeader", "nil")
  /\ UNCHANGED <<disk, exists, r, input>>

\* the compressor buffers what it is given (less than one block) until it is
\* closed; once closed, its first Write fails
WriteBatchZ(batch) ==
  /\ w.variant = "MCBZ"
  /\ w.state = "open"
  /\ Len(w.written) < MaxBatches
  /\ IF w.compressor = "open"
     THEN /\ w' = [w EXCEPT !.zbuf = @ \o EncodeBatch(batch),
                            !.metadata.OriginalSize = @ + BatchSize(batch),
                            !.written = Append(@, batch),
                            !.trace = Append(@, "B")]
          /\ ret' = [Ret("WriteBatch", "nil") EXCEPT !.disk0 = disk]
     ELSE /\ UNCHANGED w
          /\ ret' = [Ret("WriteBatch", ErrEncoderClosed) EXCEPT !.disk0 = disk]
  /\ UNCHANGED <<disk, exists, r, input>>

\* the bytes WriteFooter writes from offset 0: magic, version, 4-byte
\* metadata length, metadata
HeaderBytesZ(metadata) ==
  LET Bytes(metadataBytes) ==
        magicNumber \o <<fileVersion>> \o PutUint32(Len(metadataBytes))
        \o metadataBytes
  IN Bytes(Marshal(MetadataDocZ(metadata)))

\* the position WriteFooter seeks to before it returns: originalPosition,
\* taken before the compressor is closed
FooterPositionZ(originalPosition, endPosition) == originalPosition

\* CompressedSize taken from the position before the compressor is closed
CompressedSizeZ_BeforeClose(originalPosition, endPosition) ==
  originalPosition - headerSize

\* w.metadata.CompressedSize: the position reached after the compressor was
\* closed, less the header size
CompressedSizeZ(originalPosition, endPosition) == endPosition - headerSize

\* w.compressor.Close(): the frame of the buffered data goes to the file at
\* the file position; then the header is written from offset 0
WriteFooterZ(metadata) ==
  /\ w.variant = "MCBZ"
  /\ w.state = "open"
  /\ ~w.finalized
  /\ \E frame \in {ZFrame(w.zbuf)} :
     \E final \in {[w.metadata EXCEPT
                       !.DocumentCount = metadata.DocumentCount,
                       !.CompressedSize =
                          CompressedSizeZ(w.pos, w.pos + Len(frame))]} :
        /\ disk' = WriteAt(WriteAt(disk, w.pos, frame), 0, HeaderBytesZ(final))
        /\ w' = [w EXCEPT !.metadata = final, !.finalized = TRUE,
                          !.m1 = metadata, !.compressor = "closed",
                          !.zbuf = <<>>,
                          !.pos = FooterPositionZ(w.pos, w.pos + Len(frame)),
                          !.trace = Append(@, "F")]
  /\ ret' = [Ret("WriteFooter", "nil") EXCEPT !.disk0 = disk]
  /\ UNCHANGED <<exists, r, input>>

\* the error of Close (MCBZ) on a handle in the given state: w.file is never
\* set to nil, so a closed file is closed again
CloseErrZ(state) == IF state = "closed" THEN ErrClosed ELSE "nil"

\* Close: the compressor, when there is one, is closed (its frame goes to
\* the file) and dropped; then w.file.Close()
WriterCloseZ ==
  /\ w.variant = "MCBZ"
  /\ w.state \in {"open", "closed"}
  /\ \E frame \in {IF w.compressor = "open" THEN ZFrame(w.zbuf) ELSE <<>>} :
        /\ disk' = WriteAt(disk, w.pos, frame)
        /\ w' = [w EXCEPT !.state = "closed", !.compressor = "nil",
                          !.zbuf = <<>>, !.pos = @ + Len(frame),
                          !.fdCloses = IF w.state = "open" THEN @ + 1 ELSE @,
                          !.trace = IF w.state = "open" THEN Append(@, "C") ELSE @]
  /\ ret' = [Ret("Close", CloseErrZ(w.state)) EXCEPT !.recv = "writer",
                                                     !.again = (w.state = "closed")]
  /\ UNCHANGED <<exists, r, input>>

(***************************************************************************)
(* FileReader (both variants)                                              *)
(***************************************************************************)
NewFileReader(variant, maxBatchSize) ==
  /\ exists
  /\ w.state # "open"
  /\ r.state = "absent"
  /\ r' = [NoReader EXCEPT !.state = "open", !.variant = variant,
                           !.maxBatchSize = maxBatchSize,
                           !.metadata = IF variant = "MCBF" THEN ZeroMetadata
                                        ELSE ZeroMetadataZ]
  /\ ret' = Ret("NewFileReader", "nil")
  /\ UNCHANGED <<disk, exists, w, input>>

ReadHeader ==
  /\ r.state = "open"
  /\ r.header = "none"
  /\ \E res \in {IF r.variant = "MCBF" THEN ReadHeaderF(disk, r.pos)
                 ELSE ReadHeaderZ(disk, r.pos)} :
        /\ r' = [r EXCEPT !.pos = res.pos,
                          !.metadata = IF res.err = "nil" THEN res.metadata ELSE @,
                          !.header = IF res.err = "nil" THEN "ok" ELSE "failed",
                          !.decompressor = (r.variant = "MCBZ" /\ res.err = "nil"),
                          !.bodyStart = res.pos,
                          !.trace = Append(@, "H")]
        /\ ret' = [Ret("ReadHeader", res.err) EXCEPT !.metadata = res.metadata,
                                                     !.alloc = res.alloc,
                                                     !.pos0 = r.pos]
  /\ UNCHANGED <<disk, exists, w, input>>

\* ReadBatch of the reader's variant in the reader's state; a MCBZ reader
\* without decompressor dereferences nil
ReadBatchResult ==
  IF r.variant = "MCBF" THEN ReadBatchF(disk, r.pos, r.maxBatchSize)
  ELSE IF ~r.decompressor THEN BatchResult("panic", r.zpos, <<>>, <<>>)
  ELSE ReadBatchZ(ZDecode(Slice(disk, r.bodyStart, Len(disk))), r.zpos,
                  r.maxBatchSize)

ReadBatch ==
  /\ r.state = "open"
  /\ r.reads < MaxReads
  /\ ~r.ended
  /\ ~r.failed
  /\ \E res \in {ReadBatchResult} :
        /\ r' = [r EXCEPT !.pos = IF r.variant = "MCBF" THEN res.pos ELSE @,
                          !.zpos = IF r.variant = "MCBZ" THEN res.pos ELSE @,
                          !.reads = @ + 1,
                          !.got = IF res.err = "nil" /\ res.batch # <<>>
                                  THEN Append(@, res.batch) ELSE @,
                          !.ended = (res.err = "nil" /\ res.batch = <<>>),
                          !.failed = (res.err # "nil"),
                          !.trace = Append(@, "B")]
        /\ ret' = [Ret("ReadBatch", res.err) EXCEPT !.batch = res.batch,
                                                    !.alloc = res.alloc,
                                                    !.pos0 = IF r.variant = "MCBF"
                                                             THEN r.pos ELSE r.zpos]
  /\ UNCHANGED <<disk, exists, w, input>>

(***************************************************************************)
(* ImportCollection (internal/db/operations.go)                            *)
(***************************************************************************)
ImportResult(e, total, p, inserted) ==
  [err |-> e, total |-> total, pos |-> p, inserted |-> inserted]

\* the InsertMany call of ImportCollection that fails: none, or the first
InsertFailures == {0, 1}

\* the loop of ImportCollection over the reader's source src from pos:
\* ReadBatch(batchSize) until an error or the empty batch, InsertMany of
\* every batch read; the InsertMany call number failAt fails
RECURSIVE ImportLoop(_, _, _, _, _, _, _)
ImportLoop(variant, src, pos, batchSize, totalImported, inserted, failAt) ==
  LET Step(read) ==
        IF read.err = "panic"
        THEN ImportResult("panic", totalImported, read.pos, inserted)
        ELSE IF read.err # "nil"
        THEN ImportResult("failed to read batch", totalImported, read.pos, inserted)
        ELSE IF Len(read.batch) = 0
        THEN ImportResult("nil", totalImported, read.pos, inserted)
        ELSE IF Len(inserted) + 1 = failAt
        THEN ImportResult("failed to insert batch", totalImported, read.pos, inserted)
        ELSE ImportLoop(variant, src, read.pos, batchSize,
                        totalImported + Len(read.batch),
                        Append(inserted, read.batch), failAt)
  IN Step(IF variant = "MCBF" THEN ReadBatchF(src, pos, batchSize)
          ELSE ReadBatchZ(src, pos, batchSize))

\* ImportCollection on the reader, as runImport calls it: after ReadHeader
\* has succeeded, with the reader's batch size
ImportCollection(failAt) ==
  /\ r.state = "open"
  /\ r.header = "ok"
  /\ r.trace = <<"H">>
  /\ \E res \in {IF r.variant = "MCBF"
                 THEN ImportLoop("MCBF", disk, r.pos, r.maxBatchSize, 0, <<>>, failAt)
                 ELSE ImportLoop("MCBZ", ZDecode(Slice(disk, r.bodyStart, Len(disk))),
                                 r.zpos, r.maxBatchSize, 0, <<>>, failAt)} :
        /\ r' = [r EXCEPT !.pos = IF r.variant = "MCBF" THEN res.pos ELSE @,
                          !.zpos = IF r.variant = "MCBZ" THEN res.pos ELSE @,
                          !.got = res.inserted,
                          !.ended = (res.err = "nil"),
                          !.failed = (res.err # "nil"),
                          !.trace = Append(@, "I")]
        /\ ret' = [Ret("ImportCollection", res.err) EXCEPT !.count = res.total,
                                                           !.pos0 = r.pos]
  /\ UNCHANGED <<disk, exists, w, input>>

\* Close: the MCBF reader sets r.file to nil, the MCBZ reader does not
ReaderClose ==
  /\ r.state \in {"open", "closed"}
  /\ r' = [r EXCEPT !.state = "closed", !.decompressor = FALSE,
                    !.fdCloses = IF r.state = "open" THEN @ + 1 ELSE @]
  /\ ret' = [Ret("Close", IF r.variant = "MCBZ" THEN CloseErrZ(r.state) ELSE "nil")
               EXCEPT !.recv = "reader", !.again = (r.state = "closed")]
  /\ UNCHANGED <<disk, exists, w, input>>

(***************************************************************************)
(* Specification: a writer creates the file, then a reader reads it        *)
(***************************************************************************)
Init ==
  /\ disk = <<>>
  /\ exists = FALSE
  /\ w = NoWriter
  /\ r = NoReader
  /\ ret = Ret("", "nil")
  /\ input = NoInput

Next ==
  \/ NewFileWriter
  \/ \E m \in MetadataInputs : WriteHeader(m)
  \/ \E b \in BatchInputs : WriteBatch(b)
  \/ \E m \in FooterInputs : WriteFooter(m)
  \/ WriterClose
  \/ NewFileWriterZ
  \/ \E m \in MetadataInputsZ : WriteHeaderZ(m)
  \/ \E b \in BatchInputs : WriteBatchZ(b)
  \/ \E m \in FooterInputsZ : WriteFooterZ(m)
  \/ WriterCloseZ
  \/ \E v \in Variants, n \in LimitInputs : NewFileReader(v, n)
  \/ ReadHeader
  \/ ReadBatch
  \/ ReaderClose

Spec == Init /\ [][Next]_vars

(***************************************************************************)
(* ExportCollection (internal/db/operations.go), runExport (cmd/export.go) *)
(***************************************************************************)
ExportResult(batches, total, err) ==
  [batches |-> batches, total |-> total, err |-> err]

\* processBatch counting one per batch
ExportFlush_CountsBatches(res, batch) ==
  ExportResult(Append(res.batches, batch), res.total + 1, res.err)

\* processBatch(batch, writer, progress) and totalExported += len(batch)
ExportFlush(res, batch) ==
  ExportResult(Append(res.batches, batch), res.total + Len(batch), res.err)

\* the loop of ExportCollection from the k-th document of the cursor, with
\* res.batches passed to WriteBatch and res.total counted so far.  fail and
\* at say how the cursor ends: "decode" when Decode fails after at
\* documents, "cursor" when Next ends after at documents and Err reports
\* it, "none" when all of docs is delivered
RECURSIVE ExportLoop(_, _, _, _, _, _, _)
ExportLoop(docs, k, batchSize, batch, res, fail, at) ==
  LET Ended(out) ==
        ExportResult(out.batches, out.total,
                     IF fail = "cursor" THEN "cursor error" ELSE "nil")
      Added(b) ==
        IF Len(b) >= batchSize
        THEN ExportLoop(docs, k + 1, batchSize, <<>>, ExportFlush(res, b), fail, at)
        ELSE ExportLoop(docs, k + 1, batchSize, b, res, fail, at)
  IN IF fail = "decode" /\ k = at
     THEN ExportResult(res.batches, res.total, "failed to decode document")
     ELSE IF k = Len(docs) \/ (fail = "cursor" /\ k = at)
     THEN Ended(IF Len(batch) > 0 THEN ExportFlush(res, batch) ELSE res)
     ELSE Added(Append(batch, docs[k + 1]))

\* ExportCollection: the batches it passes to WriteBatch, the count it
\* returns and its error; "query" stands for a failure of the query, the
\* count or the find, and a negative batchSize makes make([]bson.D, 0,
\* batchSize) panic
ExportCollection(docs, batchSize, fail, at) ==
  IF fail = "query" THEN ExportResult(<<>>, 0, "invalid query")
  ELSE IF batchSize < 0 THEN ExportResult(<<>>, 0, "panic")
  ELSE ExportLoop(docs, 0, batchSize, <<>>, ExportResult(<<>>, 0, "nil"), fail, at)

\* the documents the cursor of an export holds
ExportDocs == {<<>>, <<DocA>>, <<DocA, DocB>>, <<DocA, DocB, DocA>>}

\* the exports: the writer variant, the cursor, the batch-size flag and the
\* way the cursor ends; those that call WriteBatch at most MaxBatches times
ExportInputs ==
  {in \in {[NoInput EXCEPT !.kind = "export", !.variant = v, !.docs = d,
                           !.batchSize = n, !.fail = f, !.at = a] :
              v \in Variants, d \in ExportDocs, n \in LimitInputs,
              f \in {"none", "query", "decode", "cursor"}, a \in 0..3} :
     /\ in.at <= Len(in.docs)
     /\ in.fail \in {"none", "query"} => in.at = 0
     /\ Len(ExportCollection(in.docs, in.batchSize, in.fail, in.at).batches)
          <= MaxBatches}

\* what ExportCollection does in the export at hand
ExportPlan == ExportCollection(input.docs, input.batchSize, input.fail, input.at)

\* the metadata runExport prepares: database, collection, timestamp, source
ExportMetadata == IF input.variant = "MCBF" THEN MetaA ELSE MetaZA

\* runExport going on to WriteFooter whatever ExportCollection returned
ExportFinalizes_Always(err) == TRUE

\* runExport goes on to WriteFooter when ExportCollection returned no error
ExportFinalizes(err) == err = "nil"

\* runExport: storage.NewFileWriter(outputFile)
ExportNewFileWriter ==
  /\ input.kind = "export"
  /\ IF input.variant = "MCBF" THEN NewFileWriter ELSE NewFileWriterZ

\* runExport: fileWriter.WriteHeader(metadata)
ExportWriteHeader ==
  /\ input.kind = "export"
  /\ w.trace = <<>>
  /\ IF input.variant = "MCBF" THEN WriteHeader(ExportMetadata)
     ELSE WriteHeaderZ(ExportMetadata)

\* ExportCollection: the next processBatch call
ExportWriteBatch ==
  /\ input.kind = "export"
  /\ w.hasHeader
  /\ ~w.finalized
  /\ Len(w.written) < Len(ExportPlan.batches)
  /\ IF input.variant = "MCBF" THEN WriteBatch(ExportPlan.batches[Len(w.written) + 1])
     ELSE WriteBatchZ(ExportPlan.batches[Len(w.written) + 1])

\* runExport: metadata.DocumentCount = docCount and WriteFooter(metadata),
\* once ExportCollection has returned
ExportWriteFooter ==
  /\ input.kind = "export"
  /\ w.hasHeader
  /\ Len(w.written) = Len(ExportPlan.batches)
  /\ ExportFinalizes(ExportPlan.err)
  /\ IF input.variant = "MCBF"
     THEN WriteFooter([ExportMetadata EXCEPT !.DocumentCount = ExportPlan.total])
     ELSE WriteFooterZ([ExportMetadata EXCEPT !.DocumentCount = ExportPlan.total])

\* runExport returns, or unwinds from a panic: the deferred
\* fileWriter.Close()
ExportClose ==
  /\ input.kind = "export"
  /\ w.state = "open"
  /\ w.hasHeader
  /\ Len(w.written) = Len(ExportPlan.batches)
  /\ w.finalized \/ ~ExportFinalizes(ExportPlan.err)
  /\ IF input.variant = "MCBF" THEN WriterClose ELSE WriterCloseZ

(***************************************************************************)
(* Specification: runExport writes a file                                  *)
(***************************************************************************)
InitExport ==
  /\ input \in ExportInputs
  /\ disk = <<>>
  /\ exists = FALSE
  /\ w = NoWriter
  /\ r = NoReader
  /\ ret = Ret("", "nil")

NextExport ==
  \/ ExportNewFileWriter
  \/ ExportWriteHeader
  \/ ExportWriteBatch
  \/ ExportWriteFooter
  \/ ExportClose

SpecExport == InitExport /\ [][NextExport]_vars

(***************************************************************************)
(* Specification: a reader reads a file it was handed                      *)
(***************************************************************************)
InitInput ==
  /\ input \in Inputs
  /\ disk = FileOf(input)
  /\ exists = TRUE
  /\ w = NoWriter
  /\ r = NoReader
  /\ ret = Ret("", "nil")

NextInput ==
  \/ \E v \in Variants, n \in LimitInputs : NewFileReader(v, n)
  \/ ReadHeader
  \/ ReadBatch
  \/ \E k \in InsertFailures : ImportCollection(k)
  \/ ReaderClose

SpecInput == InitInput /\ [][NextInput]_vars

(***************************************************************************)
(* Properties                                                              *)
(***************************************************************************)
\* the writer was used as NewFileWriter, WriteHeader?, WriteBatch*,
\* WriteFooter, Close
WrittenInOrder ==
  LET t == w.trace
      n == Len(t)
  IN /\ w.variant = "MCBF"
     /\ w.state = "closed"
     /\ n >= 2
     /\ t[n] = "C"
     /\ t[n - 1] = "F"
     /\ \A i \in 1..(n - 2) : t[i] = "B" \/ (i = 1 /\ t[i] = "H")

\* the reader is a MCBF reader whose first call was ReadHeader
ReadInOrderF == r.variant = "MCBF" /\ r.trace # <<>> /\ r.trace[1] = "H"

\* C1: when non-empty batches of at most maxSize documents are written by
\* NewFileWriter, WriteHeader, WriteBatch*, WriteFooter, Close, a MCBF reader
\* that calls ReadHeader and then ReadBatch(maxSize) until the empty batch
\* has received exactly the written batches, in order.
C1_RoundTrip ==
  ( /\ WrittenInOrder
    /\ w.hasHeader
    /\ \A i \in 1..Len(w.written) :
         w.written[i] # <<>> /\ Len(w.written[i]) <= r.maxBatchSize
    /\ ReadInOrderF
    /\ r.ended )
  => r.got = w.written

\* C2 as stated: ReadHeader returns database, collection, timestamp and
\* source of the metadata passed to WriteFooter, and its document count.
C2_FooterFieldsReturned ==
  (WrittenInOrder /\ ReadInOrderF /\ r.trace = <<"H">> /\ ret.op = "ReadHeader")
  => /\ ret.err = "nil"
     /\ ret.metadata.Database = w.m1.Database
     /\ ret.metadata.Collection = w.m1.Collection
     /\ ret.metadata.Timestamp = w.m1.Timestamp
     /\ ret.metadata.Source = w.m1.Source
     /\ ret.metadata.DocumentCount = w.m1.DocumentCount

\* C2 amended: ReadHeader returns database, collection, timestamp and
\* source of the metadata passed to WriteHeader (the zero values when
\* WriteHeader was not called) and the document count passed to WriteFooter.
C2_HeaderFieldsAndFooterCount ==
  (WrittenInOrder /\ ReadInOrderF /\ r.trace = <<"H">> /\ ret.op = "ReadHeader")
  => /\ ret.err = "nil"
     /\ ret.metadata.Database = w.m0.Database
     /\ ret.metadata.Collection = w.m0.Collection
     /\ ret.metadata.Timestamp = w.m0.Timestamp
     /\ ret.metadata.Source = w.m0.Source
     /\ ret.metadata.DocumentCount = w.m1.DocumentCount

C2_Witness ==
  /\ WrittenInOrder /\ ReadInOrderF /\ r.trace = <<"H">> /\ ret.op = "ReadHeader"
  /\ w.hasHeader
  /\ w.m0.Database # w.m1.Database
  /\ w.m1.DocumentCount = 3
  /\ Len(w.written) = 2

\* C3: after WriteFooter with document count 0 and no WriteBatch, then
\* Close, ReadHeader succeeds with DocumentCount 0 and the first ReadBatch
\* returns an empty batch and no error.
ZeroDocumentsWritten ==
  /\ WrittenInOrder
  /\ w.written = <<>>
  /\ w.m1.DocumentCount = 0

C3_ZeroDocuments ==
  (ZeroDocumentsWritten /\ ReadInOrderF)
  => /\ (r.trace = <<"H">> /\ ret.op = "ReadHeader") =>
          ret.err = "nil" /\ ret.metadata.DocumentCount = 0
     /\ (r.trace = <<"H", "B">> /\ ret.op = "ReadBatch") =>
          ret.err = "nil" /\ ret.batch = <<>> /\ r.ended
                          /\ r.metadata.DocumentCount = 0

C3_Witness ==
  ZeroDocumentsWritten /\ ReadInOrderF /\ r.trace = <<"H", "B">> /\ ret.op = "ReadBatch"

\* C4: ReadHeader of either reader, called first on a file of at least 4
\* bytes that do not equal the marker, returns the format error with the
\* file position at 4 and nothing allocated; on a file with the marker and
\* a version byte other than 1 it returns the version error with the file
\* position at 5, before the length prefix is read.
C4_FormatVersionGate ==
  (r.trace = <<"H">> /\ ret.op = "ReadHeader")
  => /\ (Len(disk) >= 4 /\ SubSeq(disk, 1, 4) # Marker(r.variant))
          => /\ ret.err = "invalid file format"
             /\ r.pos = 4
             /\ ret.alloc = <<>>
     /\ (Len(disk) >= 5 /\ SubSeq(disk, 1, 4) = Marker(r.variant)
                        /\ disk[5] # fileVersion)
          => /\ ret.err = "unsupported file version"
             /\ r.pos = 5
             /\ ret.alloc = <<>>

C4_Witness ==
  /\ r.trace = <<"H">>
  /\ ret.op = "ReadHeader"
  /\ r.variant = "MCBZ"
  /\ input.kind = "version"
  /\ input.variant = "MCBZ"
  /\ ret.err = "unsupported file version"

(***************************************************************************)
(* Layout of the body of an input container                                *)
(***************************************************************************)
\* offset in the body of the 4-byte length prefix of document d of batch j
DocStart(batches, j, d) ==
  Len(EncodeBody(SubSeq(batches, 1, j - 1))) + 4
  + Len(EncodeDocs(SubSeq(batches[j], 1, d - 1)))

\* offsets in the body of the first byte of the payload of document d of
\* batch j and of the first byte after it
PayloadStart(batches, j, d) == DocStart(batches, j, d) + 4
PayloadEnd(batches, j, d) ==
  PayloadStart(batches, j, d) + Len(Marshal(batches[j][d]))

\* the input is a container cut strictly inside the payload of document d
\* of batch j: at least one byte of the payload is kept, at least one is not
CutInPayload(in, j, d) ==
  /\ in.kind = "container"
  /\ j \in 1..Len(in.batches)
  /\ d \in 1..Len(in.batches[j])
  /\ in.cut - BodyOffset(in.variant) > PayloadStart(in.batches, j, d)
  /\ in.cut - BodyOffset(in.variant) < PayloadEnd(in.batches, j, d)

\* the reader is of the variant of the input, its first call was a
\* ReadHeader that succeeded, and its batch limit is at least the count of
\* every batch of the input, so that each ReadBatch starts at a batch
InSync ==
  /\ r.variant = input.variant
  /\ r.header = "ok"
  /\ r.trace[1] = "H"
  /\ \A k \in 1..Len(input.batches) : Len(input.batches[k]) <= r.maxBatchSize

\* the documents the input held before document d of batch j
DocsBefore(in, j, d) ==
  Concat(SubSeq(in.batches, 1, j - 1)) \o SubSeq(in.batches[j], 1, d - 1)

\* the documents the reader's ReadBatch calls have returned so far, those
\* returned together with an error included
DocsReturned ==
  Concat(r.got) \o (IF ret.op = "ReadBatch" /\ ret.err # "nil" THEN ret.batch
                    ELSE <<>>)

IsPrefix(s, t) == Len(s) <= Len(t) /\ s = SubSeq(t, 1, Len(s))

\* C5: on a container cut strictly inside the payload of document d of
\* batch j, read by ReadHeader and then ReadBatch calls with a limit of at
\* least 1: no ReadBatch returns the empty batch without error, and the
\* documents returned are, in order, documents written before the cut one.
\* When the limit is at least every batch count, the MCBF reader returns
\* batches 1..j-1 as written and without error, and its j-th ReadBatch
\* returns an error together with documents 1..d-1 of batch j; the MCBZ
\* reader returns an error and no document from its first ReadBatch.
C5_TruncatedPayload ==
  \A j \in 1..Len(input.batches) : \A d \in 1..Len(input.batches[j]) :
    ( /\ CutInPayload(input, j, d)
      /\ r.variant = input.variant
      /\ r.header = "ok"
      /\ r.trace[1] = "H"
      /\ r.maxBatchSize >= 1
      /\ ret.op = "ReadBatch" )
    => /\ ~r.ended
       /\ IsPrefix(DocsReturned, DocsBefore(input, j, d))
       /\ (InSync /\ r.variant = "MCBF") =>
            /\ r.reads <= j
            /\ r.got = SubSeq(input.batches, 1, Min(r.reads, j - 1))
            /\ r.reads < j => ret.err = "nil" /\ ret.batch = input.batches[r.reads]
            /\ r.reads = j =>
                 /\ ret.err = "failed to read document data"
                 /\ ret.batch = SubSeq(input.batches[j], 1, d - 1)
       /\ r.variant = "MCBZ" =>
            /\ r.reads = 1
            /\ ret.err \notin {"nil", "panic"}
            /\ ret.batch = <<>>
            /\ r.got = <<>>

C5_Witness ==
  /\ CutInPayload(input, 2, 2)
  /\ InSync
  /\ ret.op = "ReadBatch"
  /\ r.variant = "MCBF"
  /\ r.reads = 2
  /\ ret.err = "failed to read document data"
  /\ ret.batch = <<DocB>>
  /\ r.got = <<<<DocA>>>>

\* the input is a container cut at the end of its batch j
CutAtBatchEnd(in, j) ==
  /\ in.kind = "container"
  /\ j \in 1..Len(in.batches)
  /\ in.cut - BodyOffset(in.variant) = Len(EncodeBody(SubSeq(in.batches, 1, j)))

\* C6: on a container cut at the end of its batch j >= 1, read by the MCBF
\* reader with ReadHeader and then ReadBatch calls with a limit of at least
\* every batch count: the first j ReadBatch calls return batches 1..j as
\* written, in order and without error, and the next ReadBatch returns the
\* empty batch without error.
C6_CutAtBatchEnd ==
  \A j \in 1..Len(input.batches) :
    (CutAtBatchEnd(input, j) /\ InSync /\ r.variant = "MCBF" /\ ret.op = "ReadBatch")
    => /\ ret.err = "nil"
       /\ r.reads <= j + 1
       /\ r.got = SubSeq(input.batches, 1, Min(r.reads, j))
       /\ r.reads <= j => ret.batch = input.batches[r.reads] /\ ~r.ended
       /\ r.reads = j + 1 => ret.batch = <<>> /\ r.ended

C6_Witness ==
  /\ CutAtBatchEnd(input, 1)
  /\ Len(input.batches) = 2
  /\ InSync
  /\ r.variant = "MCBF"
  /\ ret.op = "ReadBatch"
  /\ r.reads = 2
  /\ r.ended
  /\ r.got = <<input.batches[1]>>

\* the reader is a MCBF reader of a MCBF input with a crafted field of the
\* given kind, its calls so far are a ReadHeader that succeeded and one
\* ReadBatch with a limit of at least 1
CraftedBody(kind) ==
  /\ input.kind = kind
  /\ input.variant = "MCBF"
  /\ r.variant = "MCBF"
  /\ r.header = "ok"
  /\ r.trace = <<"H", "B">>
  /\ r.maxBatchSize >= 1
  /\ ret.op = "ReadBatch"

\* C7 as stated: a batch count or a document length larger than the rest
\* of the file after the field is rejected with the oversize error before
\* anything sized by it is allocated.
C7_LargerThanFileRejected ==
  /\ (CraftedBody("count")
      /\ Uint32(input.field) > Len(disk) - BodyOffset("MCBF") - 4)
     => ret.err = "batch size too large" /\ ret.alloc = <<>>
  /\ (CraftedBody("doclen")
      /\ Uint32(input.field) > Len(disk) - BodyOffset("MCBF") - 8)
     => ret.err = "document too large" /\ ret.alloc = <<1>>

\* C7 amended: a batch count above 1000000 is rejected with "batch size too
\* large" before the batch slice is allocated, and a document length above
\* 16*1024*1024 with "document too large" before the document buffer is
\* allocated; a value up to its ceiling is not rejected by the guard, and
\* the document buffer is allocated with the declared length.
C7_OversizeCeilings ==
  /\ CraftedBody("count") =>
       IF Uint32(input.field) > MaxBatchLength
       THEN ret.err = "batch size too large" /\ ret.alloc = <<>> /\ ret.batch = <<>>
       ELSE /\ ret.err # "batch size too large"
            /\ ret.alloc # <<>>
            /\ ret.alloc[1] = Min(Uint32(input.field), r.maxBatchSize)
  /\ CraftedBody("doclen") =>
       IF Uint32(input.field) > MaxDocLength
       THEN ret.err = "document too large" /\ ret.alloc = <<1>> /\ ret.batch = <<>>
       ELSE /\ ret.err # "document too large"
            /\ Len(ret.alloc) >= 2
            /\ ret.alloc[2] = Uint32(input.field)

C7_Witness ==
  /\ CraftedBody("doclen")
  /\ Uint32(input.field) = MaxDocLength + 1
  /\ ret.err = "document too large"
  /\ ret.alloc = <<1>>

\* the bytes ReadBatch reads from: the file, or the decoded stream
BatchSource ==
  IF r.variant = "MCBF" THEN disk
  ELSE ZDecode(Slice(disk, r.bodyStart, Len(disk))).data

\* the batch count the last ReadBatch read
DeclaredCount == Uint32(Slice(BatchSource, ret.pos0, ret.pos0 + 4))

\* C8: a ReadBatch of either reader with a limit maxSize >= 0 that allocates
\* its batch slice has read a declared count, allocates room for
\* min(declared count, maxSize) documents and returns at most that many;
\* a ReadBatch that allocates no batch slice returns no document.
C8_BatchCountClamp ==
  ret.op = "ReadBatch"
  => /\ ret.alloc # <<>> =>
          /\ ret.pos0 + 4 <= Len(BatchSource)
          /\ ret.alloc[1] = Min(DeclaredCount, r.maxBatchSize)
          /\ Len(ret.batch) <= Min(DeclaredCount, r.maxBatchSize)
     /\ ret.alloc = <<>> => ret.batch = <<>>

C8_Witness ==
  /\ CraftedBody("count")
  /\ DeclaredCount = MaxBatchLength
  /\ r.maxBatchSize = 2
  /\ ret.alloc[1] = 2
  /\ Len(ret.batch) = 2

\* the reader is a MCBF reader of a MCBF input with a crafted metadata
\* length, and ReadHeader was its first call
CraftedLength ==
  /\ input.kind = "length"
  /\ input.variant = "MCBF"
  /\ r.variant = "MCBF"
  /\ r.trace = <<"H">>
  /\ ret.op = "ReadHeader"

\* the metadata length of the input
DeclaredLength == Uint64(input.field[1] \o input.field[2])

\* C9: ReadHeader of the MCBF reader rejects a metadata length above
\* 10*1024*1024 with "metadata too large", having allocated no metadata
\* buffer and with the file position still at the first byte of the blob;
\* a length up to 10*1024*1024 is not rejected by this test, and the buffer
\* is allocated with that length.
C9_MetadataLengthCeiling ==
  CraftedLength =>
    IF DeclaredLength > MaxMetadataLen
    THEN /\ ret.err = "metadata too large"
         /\ ret.alloc = <<>>
         /\ r.pos = BlobOffset("MCBF")
    ELSE /\ ret.err # "metadata too large"
         /\ ret.alloc = <<DeclaredLength>>

C9_Witness ==
  /\ CraftedLength
  /\ DeclaredLength = MaxMetadataLen + 1
  /\ ret.err = "metadata too large"
  /\ r.pos = 13

\* the fields of Metadata in the order of KnownKeys
FieldNames(variant) ==
  IF variant = "MCBF"
  THEN <<"Database", "Collection", "DocumentCount", "Timestamp", "Source",
         "TotalSize", "Platform">>
  ELSE <<"Database", "Collection", "DocumentCount", "Timestamp", "Source",
         "OriginalSize", "CompressedSize">>

\* the metadata of the input containers with the zero value in field k
MetadataWithout(variant, k) ==
  IF variant = "MCBF"
  THEN [MetaF EXCEPT ![FieldNames(variant)[k]] = ZeroMetadata[FieldNames(variant)[k]]]
  ELSE [MetaZ EXCEPT ![FieldNames(variant)[k]] = ZeroMetadataZ[FieldNames(variant)[k]]]

\* C10: ReadHeader of either reader, on a container whose metadata blob
\* lacks one known key or holds a value of the wrong type under it,
\* succeeds and returns the zero value for that field and the stored value
\* for every other field.
C10_DefensiveDecoding ==
  ( /\ input.kind = "meta"
    /\ r.variant = input.variant
    /\ r.trace = <<"H">>
    /\ ret.op = "ReadHeader" )
  => /\ ret.err = "nil"
     /\ ret.metadata = MetadataWithout(input.variant, input.key)

\* C11: on a writer whose WriteFooter has returned without error, a later
\* WriteBatch call returns an error and leaves the file content as it was
\* before the call
C11_WriteBatchAfterFooterRejected ==
  (ret.op = "WriteBatch" /\ w.finalized)
    => (ret.err # "nil" /\ disk = ret.disk0)

\* the writer was closed without a WriteFooter call
ClosedUnfinalized == w.state = "closed" /\ ~w.finalized

\* C12: after NewFileWriter, WriteHeader?, WriteBatch*, Close with no
\* WriteFooter, ReadHeader on the file from its start returns an error, for
\* the writer of either variant and the reader of either variant
C12_CloseBeforeFinalizeInvalid ==
  (ClosedUnfinalized /\ ret.op = "ReadHeader" /\ ret.pos0 = 0)
    => ret.err \notin {"nil", "panic"}

\* a MCBZ writer closed after one batch and no WriteFooter; ReadHeader of the
\* MCBZ reader found the zero bytes before the frame
C12_Witness ==
  /\ ClosedUnfinalized
  /\ w.variant = "MCBZ"
  /\ w.written # <<>>
  /\ Len(disk) > headerSize
  /\ r.variant = "MCBZ"
  /\ ret.op = "ReadHeader"
  /\ ret.pos0 = 0
  /\ ret.err = "invalid file format"

\* C13: a Close call on a writer or reader that was closed before returns no
\* error, and the file handle is released once only
C13_IdempotentClose ==
  (ret.op = "Close" /\ ret.again)
    => (ret.err = "nil" /\ w.fdCloses <= 1 /\ r.fdCloses <= 1)

\* the offset just past the last body byte the writer has put into the file
BodyEndW ==
  IF w.variant = "MCBF" THEN PlaceholderLen + Len(EncodeBody(w.written))
  ELSE headerSize + Len(ZFrame(EncodeBody(w.written)))

\* C14: when WriteFooter returns without error, the file position is the end
\* of the body, the bytes the compressor emits on its close included
C14_PositionAfterFooter ==
  (ret.op = "WriteFooter" /\ ret.err = "nil") => w.pos = BodyEndW

\* offset in the body at which the input container is cut
CutInBody(in) == in.cut - BodyOffset(in.variant)

\* C15: a MCBF container cut in batch j, read by a MCBF reader whose limit is
\* at least every batch count, at its j-th ReadBatch.  Cut where the length
\* prefix of document d >= 2 begins: documents 1..d-1 are returned with no
\* error.  Cut where the length prefix of document 1 begins, inside a length
\* prefix, or in a payload (at its first byte or later): an error is
\* returned, with the documents read before it.
C15_PartialBatch ==
  \A j \in 1..Len(input.batches) : \A d \in 1..Len(input.batches[j]) :
    ( /\ input.kind = "container"
      /\ input.variant = "MCBF"
      /\ InSync
      /\ ret.op = "ReadBatch"
      /\ r.reads = j
      /\ CutInBody(input) >= DocStart(input.batches, j, d)
      /\ CutInBody(input) < PayloadEnd(input.batches, j, d) )
    => /\ ret.batch = SubSeq(input.batches[j], 1, d - 1)
       /\ (CutInBody(input) = DocStart(input.batches, j, d) /\ d > 1)
            => ret.err = "nil"
       /\ (CutInBody(input) = DocStart(input.batches, j, d) /\ d = 1)
            => ret.err = "failed to read document length"
       /\ ( /\ CutInBody(input) > DocStart(input.batches, j, d)
            /\ CutInBody(input) < PayloadStart(input.batches, j, d) )
            => ret.err = "failed to read document length"
       /\ CutInBody(input) >= PayloadStart(input.batches, j, d)
            => ret.err = "failed to read document data"

\* the second batch of two is cut where the length prefix of its second
\* document begins; the second ReadBatch returned its first document
C15_Witness ==
  /\ input.kind = "container"
  /\ input.variant = "MCBF"
  /\ Len(input.batches) = 2
  /\ Len(input.batches[2]) = 2
  /\ CutInBody(input) = DocStart(input.batches, 2, 2)
  /\ InSync
  /\ ret.op = "ReadBatch"
  /\ r.reads = 2
  /\ ret.err = "nil"
  /\ ret.batch = SubSeq(input.batches[2], 1, 1)

\* C16: a ReadBatch call on a reader on which ReadHeader has not succeeded
\* returns an error: no panic, no documents, no empty batch with nil error
C16_ReadBatchNeedsHeader ==
  (ret.op = "ReadBatch" /\ r.header # "ok")
    => (ret.err \notin {"nil", "panic"} /\ ret.batch = <<>>)

\* C17: a MCBF container of one batch of 3 payloads of 10, 0 and 4096 bytes,
\* read by ReadHeader and then one ReadBatch with a limit of at least 1:
\* the call returns the first min(3, limit) payloads, byte for byte, and no
\* error
C17_OpaquePayloads ==
  ( /\ input.kind = "opaque"
    /\ r.variant = "MCBF"
    /\ r.trace = <<"H", "B">>
    /\ ret.op = "ReadBatch"
    /\ r.maxBatchSize >= 1 )
  => /\ ret.err = "nil"
     /\ Len(ret.batch) = Min(Len(OpaqueSizes), r.maxBatchSize)
     /\ \A i \in 1..Len(ret.batch) :
          Marshal(ret.batch[i]) = OpaquePayloads(input.how)[i]

\* C18: when WriteFooter of the MCBF writer has returned, every byte written
\* by the WriteBatch calls is in the file at its offset, and the header
\* written from the header offset ends within the placeholder
C18_FooterKeepsBody ==
  (w.variant = "MCBF" /\ ret.op = "WriteFooter" /\ ret.err = "nil")
    => /\ Slice(disk, PlaceholderLen, PlaceholderLen + Len(EncodeBody(w.written)))
            = EncodeBody(w.written)
       /\ w.headerOffset + Len(HeaderBytes(w.metadata))
            <= w.headerOffset + PlaceholderLen

\* C19: for a file finalized by the MCBZ writer, the offset at which
\* ReadHeader of the MCBZ reader hands the file to the decompressor is the
\* offset at which NewFileWriter started the compressed body
C19_BodyStartAgrees ==
  ( /\ w.variant = "MCBZ"
    /\ w.finalized
    /\ r.variant = "MCBZ"
    /\ ret.op = "ReadHeader"
    /\ ret.pos0 = 0
    /\ ret.err = "nil" )
  => r.bodyStart = headerSize

\* offsets in the body at which a batch-count prefix starts, and its end
BatchStarts(batches) ==
  {Len(EncodeBody(SubSeq(batches, 1, k))) : k \in 0..Len(batches)}

\* the reader's cursor as an offset in the body
BodyCursor ==
  IF r.variant = "MCBF" THEN r.pos - BodyOffset(r.variant) ELSE r.zpos

\* C20: on a whole container read by ReadHeader and then ReadBatch calls
\* with a limit of at least 1: no ReadBatch fails, after every ReadBatch the
\* cursor is at the start of a batch count or at the end of the body, and
\* when the empty batch is returned the documents returned before are the
\* documents of the body, in order
C20_SmallerLimitLosesNothing ==
  ( /\ input.kind = "container"
    /\ input.cut = Len(Container(input.variant, input.batches))
    /\ r.variant = input.variant
    /\ r.header = "ok"
    /\ r.trace[1] = "H"
    /\ r.maxBatchSize >= 1
    /\ ret.op = "ReadBatch" )
  => /\ ret.err = "nil"
     /\ BodyCursor \in BatchStarts(input.batches)
     /\ r.ended => Concat(r.got) = Concat(input.batches)

\* C27: a ReadBatch call after a successful ReadHeader returns a batch and
\* an error value whatever its limit is: it does not panic and it allocates
\* nothing with a negative capacity
C27_ReadBatchTotal ==
  (ret.op = "ReadBatch" /\ r.header = "ok" /\ r.trace[1] = "H")
    => /\ ret.err # "panic"
       /\ \A i \in 1..Len(ret.alloc) : ret.alloc[i] >= 0

\* C26: when WriteFooter of the MCBZ writer has returned, the header lies in
\* the file from offset 0 as written, over whatever the closed compressor
\* had put there before, and the CompressedSize it records is the length of
\* the frame the compressor put into the file from the body offset on
C26_CloseBeforeHeader ==
  (w.variant = "MCBZ" /\ ret.op = "WriteFooter" /\ ret.err = "nil")
    => /\ w.compressor = "closed"
       /\ w.metadata.CompressedSize = Len(ZFrame(EncodeBody(w.written)))
       /\ IsPrefix(HeaderBytesZ(w.metadata), disk)
       /\ Len(disk) = Max(Len(HeaderBytesZ(w.metadata)),
                          headerSize + w.metadata.CompressedSize)

\* WriteFooter after two batches: the frame is not empty
C26_Witness ==
  /\ w.variant = "MCBZ"
  /\ ret.op = "WriteFooter"
  /\ ret.err = "nil"
  /\ Len(w.written) = 2
  /\ w.metadata.CompressedSize > 30

\* sum of payload length + 4 over the documents of the batches
RECURSIVE SizeOfBatches(_)
SizeOfBatches(batches) ==
  IF batches = <<>> THEN 0
  ELSE BatchSize(Head(batches)) + SizeOfBatches(Tail(batches))

\* the size field of the metadata WriteFooter put into the header
RecordedSize ==
  IF w.variant = "MCBF" THEN w.metadata.TotalSize ELSE w.metadata.OriginalSize

\* C23: when WriteFooter has built the header, the size it records
\* (TotalSize, OriginalSize) is the sum of payload length + 4 over every
\* document of every WriteBatch call made on the writer
C23_RunningSize ==
  (ret.op = "WriteFooter" /\ ret.err = "nil")
    => RecordedSize = SizeOfBatches(w.written)

\* the input is a whole container: a valid header and every byte of a body
\* laid out by WriteBatch
WholeContainer ==
  \/ /\ input.kind = "container"
     /\ input.cut = Len(Container(input.variant, input.batches))
  \/ input.kind = "emptybatch"

\* offset in the body at which the last ReadBatch started
BodyCursorBefore ==
  IF r.variant = "MCBF" THEN ret.pos0 - BodyOffset(r.variant) ELSE ret.pos0

\* C22: on a whole container read by ReadHeader and then ReadBatch calls
\* with a limit of at least 0, a ReadBatch returns the empty batch with no
\* error only when it started where the body ends
C22_EmptyBatchIsEnd ==
  ( /\ WholeContainer
    /\ r.variant = input.variant
    /\ r.header = "ok"
    /\ r.trace[1] = "H"
    /\ r.maxBatchSize >= 0
    /\ ret.op = "ReadBatch"
    /\ ret.err = "nil"
    /\ ret.batch = <<>> )
  => BodyCursorBefore = Len(EncodeBody(input.batches))

\* the input is a container whose header records the number of documents of
\* its body as written, cut or not
CountedContainer ==
  /\ input.kind = "container"
  /\ r.variant = input.variant
  /\ r.metadata.DocumentCount = Len(Concat(input.batches))

\* C21: when ImportCollection returns without error on a container whose
\* header was accepted and records the number of documents written, the
\* number of documents it read and inserted is that number
C21_CompleteImport ==
  (CountedContainer /\ ret.op = "ImportCollection" /\ ret.err = "nil")
    => ret.count = r.metadata.DocumentCount

\* ReadHeader of the reader of the writer's variant on the file from offset 0
HeaderOnDisk ==
  IF w.variant = "MCBF" THEN ReadHeaderF(disk, 0) ELSE ReadHeaderZ(disk, 0)

\* runExport has returned without error: WriteFooter and the deferred Close
\* have run
ExportCompleted == input.kind = "export" /\ w.finalized /\ w.state = "closed"

\* C24: with a batch size of at least 1, every batch ExportCollection passes
\* to WriteBatch holds at least 1 and at most batchSize documents; when
\* runExport has completed without error, the DocumentCount in the header
\* of the file is the number of documents of all those batches, and these
\* are the documents of the cursor
C24_ExportCount ==
  (input.kind = "export" /\ input.batchSize >= 1)
    => /\ \A i \in 1..Len(w.written) :
            Len(w.written[i]) >= 1 /\ Len(w.written[i]) <= input.batchSize
       /\ ExportCompleted =>
            /\ HeaderOnDisk.err = "nil"
            /\ HeaderOnDisk.metadata.DocumentCount = Len(Concat(w.written))
            /\ Concat(w.written) = input.docs

\* an export of 3 documents with batch size 2 has completed
C24_Witness ==
  /\ ExportCompleted
  /\ input.batchSize = 2
  /\ Len(input.docs) = 3
  /\ Len(w.written) = 2
  /\ HeaderOnDisk.metadata.DocumentCount = 3

\* a reader of either variant accepts the header of the file
HeaderAccepted ==
  ReadHeaderF(disk, 0).err = "nil" \/ ReadHeaderZ(disk, 0).err = "nil"

\* C25: in an export whose ExportCollection returns an error (or panics),
\* WriteFooter is never called and the file's header is not accepted; at
\* every moment of every export, a file whose header is accepted is one on
\* which every WriteBatch of the export and WriteFooter have returned
C25_FailedExportInvalid ==
  input.kind = "export"
    => /\ ExportPlan.err # "nil" => (~w.finalized /\ ~HeaderAccepted)
       /\ HeaderAccepted =>
            /\ w.finalized
            /\ ExportPlan.err = "nil"
            /\ w.written = ExportPlan.batches

\* an export whose cursor failed after a batch was written; Close has run
C25_Witness ==
  /\ input.kind = "export"
  /\ ExportPlan.err = "cursor error"
  /\ w.state = "closed"
  /\ Len(w.written) >= 1
  /\ ~HeaderAccepted

====
